---- MODULE Spec2Model ----
(***************************************************************************)
(* Helios: the runbook execution controller and its worker with its audit  *)
(* log, the Runbook template controller and the worker's step dispatch,    *)
(* the gNMI path parser, the flow enricher's Kafka consumer/producer pair, *)
(* NetBox cache, enrichment step and shutdown, and the target              *)
(* synchronizer, as state machines.                                        *)
(*                                                                         *)
(* Each component has its own specification (SpecCtrl, SpecWorker,         *)
(* SpecRunbook, SpecParse, SpecFlow, SpecCache, SpecEnrich, SpecShutdown,  *)
(* SpecSync) over its own variables, the other components' variables       *)
(* staying at their initial values.  The worker runs beside the controller *)
(* and shares the execution and the Jobs with it.                          *)
(***************************************************************************)
EXTENDS Integers, Sequences, FiniteSets, TLC

(***************************************************************************)
(* Bounds of the model.                                                    *)
(***************************************************************************)
\* The clock runs 0..MaxTime; one tick is 30 minutes of wall time.
MaxTime == 4

\* Records that arrive on the raw topic.
MaxRaw == 3

\* Consumer.batchSize (main passes 100), scaled down.
BatchSize == 2

\* Sync runs the external scheduler starts.
MaxRuns == 2

\* Devices on one page of the inventory's answer (the client asks for 100).
PageSize == 2

VARIABLES
    \* ---- runbook controller ----
    runbook,        \* the Runbook spec the execution references
    execution,      \* the persisted RunbookExecution status
    jobs,           \* batch Jobs in the namespace: name -> status
    now,            \* wall clock, in ticks since the execution's creation
    created,        \* history: names of the Jobs created, in order
    everApprover,   \* history: approvedBy has held an approver's name
    everAwaited,    \* history: the execution has been in PendingApproval
    lapsed,         \* history: the approval timeout elapsed with no approval recorded
    everRunning,    \* history: the execution has been in Running
    \* ---- flow enricher: consumer and producer ----
    rawTopic,       \* the raw topic's partition: rawTopic[o] is the record at offset o
    position,       \* the consumer's fetch position: the next offset Poll returns
    storedOffsets,  \* offsets handed to StoreMessage
    committed,      \* offsets committed to the group by the client's auto-commit
    cpc,            \* where the consumer goroutine is
    batch,          \* pollBatch's batch, then the handler's flows: offsets, in order
    pollI,          \* pollBatch's loop counter i
    prodK,          \* ProduceBatch: index of the next flow to enqueue
    inflight,       \* records enqueued at the producer, no delivery report yet
    deliveryChan,   \* ProduceBatch's deliveryChan: delivery reports not yet received
    received,       \* ProduceBatch: delivery reports received so far
    errs,           \* ProduceBatch: failed deliveries counted so far
    enriched,       \* the enriched topic: offsets of the records delivered, in order
    cancelled,      \* ctx.Done() is closed
    confirmed,      \* history: offsets of batches ProduceBatch returned nil for
    finished,       \* history: offsets of polled records whose handling has ended
    brokersDown,    \* history: Poll has returned ErrAllBrokersDown
    \* ---- target synchronizer ----
    configMaps,     \* the namespace's ConfigMaps: name -> data (file name -> document)
    syncPc,         \* where the sync process is
    devices,        \* the device list the current run fetched
    runs,           \* runs started so far
    cmUpdates,      \* helios_target_sync_configmap_updates_total: <<name, status>> -> count
    syncErrors,     \* helios_target_sync_errors_total
    listFailed,     \* history: the current run's device listing failed
    cmAtStart,      \* history: the ConfigMaps as they were when the current run started
    runInv,         \* history: the inventory the current run's listing was answered from
    pagesFetched,   \* history: fetchPage calls of the current run's listing
    cmCalls,        \* history: Get, Create and Update calls made to the ConfigMap store
    \* ---- runbook worker (the pod of an executor or rollback Job) ----
    wPc,            \* where the worker process is
    wJob,           \* the name of the Job the worker runs for
    wI,             \* run's loop index into steps
    wStepStatuses,  \* run's stepStatuses
    wExitCode,      \* run's exitCode
    wStale,         \* the worker's copy of the execution is older than the persisted one
    statusSteps,    \* the persisted execution's status.steps
    ranSteps,       \* history: Job name -> names of the steps its worker started, in order
    wRefused,       \* history: a status update of the worker failed though its copy was current
    \* ---- flow enricher: NetBox device cache ----
    nbInventory,    \* the devices NetBox holds, in listing order
    cDevices,       \* NetBoxCache.devices: management IP -> DeviceMetadata
    mu,             \* NetBoxCache.mu: [writer, readers]
    refPc,          \* where the refresh goroutine is
    refLocal,       \* fetchDevices' local devices map
    refPage,        \* the page fetchDevices asks for next
    refErr,         \* fetchDevices returned an error
    refreshes,      \* refreshes started so far
    rdPc,           \* where the reader (an Enrich call) is
    rdIP,           \* the address the reader looks up
    rdGot,          \* what LookupByIP returned: <<>> (not found) or <<meta>>
    installs,       \* history: the maps installed by refreshes, in order
    installInvs,    \* history: the inventory each installed map was fetched from
    rdLo,           \* history: Len(installs) when the reader's lookup began
    atStart,        \* history: cDevices when the current refresh started
    \* ---- runbook controller and the worker's step dispatch ----
    tmpl,           \* the Runbook object's spec: name, steps, requiresApproval, approvers
    rbConditions,   \* the Runbook object's status.conditions
    rbFresh,        \* history: the last status write was computed from the spec as it is now
    stepRun,        \* history: <<>> or the executeStep call made since the Runbook last changed
    \* ---- flow enricher: Enrich's NetBox step ----
    enCache,        \* NetBoxCache.devices as Enrich finds it
    enFlow,         \* the flow record handed to Enrich, as it came off the raw topic
    enOut,          \* <<>> or the record after applyNetBoxMetadata
    \* ---- audit logger ----
    auditLog,       \* history: the audit events LogEvent has written
    \* ---- flow enricher: run's shutdown beside the consumer goroutine ----
    mainPc,         \* where run is: "wait", "server", "geoip", "wgwait", "done"
    consPc,         \* where the consumer goroutine is: "select", "poll", "enrich",
                    \* "produce", "closed"
    ctxDone,        \* the signal context is cancelled
    geoipReader,    \* "nil" (databases absent), "open" or "closed"
    hBatch,         \* flows in the batch pollBatch is filling or the handler has
    hPollI,         \* pollBatch's loop index
    hK,             \* the flow the handler is enriching
    hSide,          \* "src" or "dst": the address applyGeoIP looks up next
    closedLookup,   \* history: Lookup was called on a closed reader
    \* ---- worker: the step run's loop has just gone through ----
    condRendered,   \* <<>> or what Render returned for the step's condition
    stepExecuted,   \* executeStep was called for the step
    \* ---- gnmic: parsePath ----
    pathIn,         \* the path string handed to parsePath, as its characters
    pathOut         \* <<>> or <<the names of the elements of the Path returned>>

ctrlVars == <<runbook, execution, jobs, now, created, everApprover, everAwaited, lapsed,
              everRunning>>

flowVars == <<rawTopic, position, storedOffsets, committed, cpc, batch, pollI, prodK,
              inflight, deliveryChan, received, errs, enriched, cancelled,
              confirmed, finished, brokersDown>>

syncVars == <<configMaps, syncPc, devices, runs, cmUpdates, syncErrors, listFailed,
              cmAtStart, runInv, pagesFetched, cmCalls>>

workerOwnVars == <<wPc, wJob, wI, wStepStatuses, wExitCode, statusSteps, ranSteps, wRefused>>

workerVars == <<workerOwnVars, wStale>>

cacheVars == <<nbInventory, cDevices, mu, refPc, refLocal, refPage, refErr, refreshes,
               rdPc, rdIP, rdGot, installs, installInvs, rdLo, atStart>>

tmplVars == <<tmpl, rbConditions, rbFresh, stepRun>>

enrichVars == <<enCache, enFlow, enOut>>

\* The variables of the components that follow the five above.
auditVars == <<auditLog>>

\* The variables of the components that follow the enricher.
shutVars == <<mainPc, consPc, ctxDone, geoipReader, hBatch, hPollI, hK, hSide, closedLookup>>

condVars == <<condRendered, stepExecuted>>

pathVars == <<pathIn, pathOut>>

laterVars == <<auditVars, shutVars, condVars, pathVars>>

restVars == <<tmplVars, enrichVars, laterVars>>

vars == <<ctrlVars, flowVars, syncVars, workerVars, cacheVars, restVars>>

(***************************************************************************)
(* Each component at rest, for the specifications of the other components. *)
(***************************************************************************)
CtrlParked ==
    /\ runbook = [requiresApproval |-> FALSE, approvers |-> <<>>,
                  approvalTimeout |-> "", rollback |-> <<>>]
    /\ execution = [phase |-> "", startTime |-> <<>>, completionTime |-> <<>>,
                    duration |-> <<>>, approvedBy |-> "", message |-> "", jobName |-> ""]
    /\ jobs = <<>>
    /\ now = 0
    /\ created = <<>>
    /\ everApprover = FALSE
    /\ everAwaited = FALSE
    /\ lapsed = FALSE
    /\ everRunning = FALSE

FlowParked ==
    /\ rawTopic = <<>>
    /\ position = 1
    /\ storedOffsets = {}
    /\ committed = {}
    /\ cpc = "closed"
    /\ batch = <<>>
    /\ pollI = 0
    /\ prodK = 1
    /\ inflight = {}
    /\ deliveryChan = <<>>
    /\ received = 0
    /\ errs = 0
    /\ enriched = <<>>
    /\ cancelled = FALSE
    /\ confirmed = {}
    /\ finished = {}
    /\ brokersDown = FALSE

SyncParked ==
    /\ configMaps = <<>>
    /\ syncPc = "start"
    /\ devices = <<>>
    /\ runs = 0
    /\ cmUpdates = <<>>
    /\ syncErrors = 0
    /\ listFailed = FALSE
    /\ cmAtStart = <<>>
    /\ runInv = <<>>
    /\ pagesFetched = 0
    /\ cmCalls = 0

WorkerParked ==
    /\ wPc = "none"
    /\ wJob = ""
    /\ wI = 0
    /\ wStepStatuses = <<>>
    /\ wExitCode = 0
    /\ wStale = FALSE
    /\ statusSteps = <<>>
    /\ ranSteps = <<>>
    /\ wRefused = FALSE

CacheParked ==
    /\ nbInventory = <<>>
    /\ cDevices = <<>>
    /\ mu = [writer |-> FALSE, readers |-> 0]
    /\ refPc = "stopped"
    /\ refLocal = <<>>
    /\ refPage = 0
    /\ refErr = FALSE
    /\ refreshes = 0
    /\ rdPc = "idle"
    /\ rdIP = ""
    /\ rdGot = <<>>
    /\ installs = <<>>
    /\ installInvs = <<>>
    /\ rdLo = 0
    /\ atStart = <<>>

RunbookParked ==
    /\ tmpl = [name |-> "", steps |-> <<>>, requiresApproval |-> FALSE, approvers |-> <<>>]
    /\ rbConditions = <<>>
    /\ rbFresh = FALSE
    /\ stepRun = <<>>

EnrichParked ==
    /\ enCache = <<>>
    /\ enFlow = <<>>
    /\ enOut = <<>>

AuditParked == auditLog = {}

ShutdownParked ==
    /\ mainPc = "wait"
    /\ consPc = "select"
    /\ ctxDone = FALSE
    /\ geoipReader = "nil"
    /\ hBatch = 0
    /\ hPollI = 0
    /\ hK = 0
    /\ hSide = "src"
    /\ closedLookup = FALSE

CondParked ==
    /\ condRendered = <<>>
    /\ stepExecuted = FALSE

PathParked ==
    /\ pathIn = <<>>
    /\ pathOut = <<>>

LaterParked == AuditParked /\ ShutdownParked /\ CondParked /\ PathParked

RestParked == RunbookParked /\ EnrichParked /\ LaterParked

(***************************************************************************)
(* api/v1alpha1: phases.                                                   *)
(***************************************************************************)
PhasePending == "Pending"
PhasePendingApproval == "PendingApproval"
PhaseApproved == "Approved"
PhaseRunning == "Running"
PhaseCompleted == "Completed"
PhaseFailed == "Failed"
PhaseCancelled == "Cancelled"
PhaseTimedOut == "TimedOut"
PhaseRollingBack == "RollingBack"
PhaseRolledBack == "RolledBack"

\* metadata.name of the one execution modelled.
ExecName == "exec-1"

\* metadata.creationTimestamp of the execution: the clock's origin.
CreationTimestamp == 0

\* A *metav1.Time is <<>> (nil) or <<t>>.
NilTime == <<>>

\* Names an external actor may patch into status.approvedBy.
PatchNames == {"noc-leads", "intern"}

\* Spec.Approvers values: none, or the one group approver of the spec's scenario.
ApproverLists == {<<>>, <<[type |-> "group", name |-> "noc-leads"]>>}

\* Spec.ApprovalTimeout values: unset, unparseable, explicit zero, 30 minutes, one hour.
TimeoutStrings == {"", "soon", "0s", "30m", "1h"}

\* Spec.Rollback values: no rollback steps, or one step.
RollbackLists == {<<>>, <<"restore">>}

\* time.ParseDuration in ticks of 30 minutes; an error returns 0 (the error is dropped).
ParseDuration(s) ==
    CASE s = "30m" -> 1
      [] s = "1h" -> 2
      [] OTHER -> 0

\* time.Hour, in ticks.
Hour == 2

\* The timeout handlePendingApproval compares against.
ApprovalTimeoutOf(rb) ==
    LET timeout == ParseDuration(rb.approvalTimeout)
    IN IF timeout = 0 THEN Hour ELSE timeout

\* The name of some entry of the runbook's approver list.
IsApproverName(n) ==
    n \in {runbook.approvers[i].name : i \in 1..Len(runbook.approvers)}

ApproverValidUnchecked(rb, approvedBy) ==
    approvedBy # ""

\* The loop over runbook.Spec.Approvers in handlePendingApproval.
ApproverValid(rb, approvedBy) ==
    \E i \in 1..Len(rb.approvers) : rb.approvers[i].name = approvedBy

ExecutorJobNameStamped == ExecName \o "-executor-" \o ToString(now)

\* fmt.Sprintf("%s-executor", exec.Name)
ExecutorJobName == ExecName \o "-executor"

RollbackJobNameReused == ExecName \o "-executor"

\* fmt.Sprintf("%s-rollback", exec.Name)
RollbackJobName == ExecName \o "-rollback"

\* The case labels of Reconcile's switch on status.phase.
PendingCase == {"", PhasePending}

PendingApprovalCase == {PhasePendingApproval}

ApprovedCase == {PhaseApproved}

RunningCaseFallsThrough == {PhaseRunning, PhasePendingApproval}

RunningCase == {PhaseRunning}

FailedCaseWithTimedOut == {PhaseFailed, PhaseTimedOut}

FailedCase == {PhaseFailed}

RollingBackCaseWithRolledBack == {PhaseRollingBack, PhaseRolledBack}

RollingBackCase == {PhaseRollingBack}

\* Reconcile's terminal case: Completed, Cancelled, TimedOut, RolledBack.
TerminalPhases == {PhaseCompleted, PhaseCancelled, PhaseTimedOut, PhaseRolledBack}

RejectedMessageAnonymous(approvedBy) ==
    "approver is not in the runbook's approved approvers list"

\* fmt.Sprintf("approver %q is not in the runbook's approved approvers list", ApprovedBy)
RejectedMessage(approvedBy) ==
    "approver \"" \o approvedBy \o "\" is not in the runbook's approved approvers list"

\* setPhase's in-memory part: phase and message.
WithPhase(exec, phase, message) ==
    [exec EXCEPT !.phase = phase, !.message = message]

\* r.Status().Update: the object is persisted, or the update fails and the
\* persisted status stays as it was.
StatusUpdate(exec, updOK) ==
    execution' = IF updOK THEN exec ELSE execution

\* setPhase
SetPhase(exec, phase, message, updOK) ==
    StatusUpdate(WithPhase(exec, phase, message), updOK)

\* now.Sub(StartTime).Round(time.Second).String(), kept as the tick count;
\* "" (here <<>>) when StartTime is nil.
WithCompletion(exec) ==
    [exec EXCEPT !.completionTime = <<now>>,
                 !.duration = IF exec.startTime # NilTime
                              THEN <<now - exec.startTime[1]>>
                              ELSE exec.duration]

(***************************************************************************)
(* History bookkeeping, the same in every controller step.                 *)
(***************************************************************************)
Track ==
    /\ everApprover' = (everApprover \/ IsApproverName(execution'.approvedBy))
    /\ everAwaited' = (everAwaited \/ execution'.phase = PhasePendingApproval)
    /\ lapsed' = (lapsed \/ ( /\ execution'.phase = PhasePendingApproval
                              /\ execution'.approvedBy = ""
                              /\ now' - CreationTimestamp > ApprovalTimeoutOf(runbook) ))
    /\ everRunning' = (everRunning \/ execution'.phase = PhaseRunning)
    /\ wStale' = (wStale \/ (wPc \in {"steps", "final"} /\ execution' # execution))

(***************************************************************************)
(* The state after the execution is created, before the first reconcile.   *)
(***************************************************************************)
CtrlInit ==
    /\ runbook \in [requiresApproval : BOOLEAN,
                    approvers : ApproverLists,
                    approvalTimeout : TimeoutStrings,
                    rollback : RollbackLists]
    /\ execution = [phase |-> "", startTime |-> NilTime, completionTime |-> NilTime,
                    duration |-> <<>>, approvedBy |-> "", message |-> "", jobName |-> ""]
    /\ jobs = <<>>
    /\ now = CreationTimestamp
    /\ created = <<>>
    /\ everApprover = FALSE
    /\ everAwaited = FALSE
    /\ lapsed = FALSE
    /\ everRunning = FALSE

(***************************************************************************)
(* Reconcile, one action per case of its switch.  rbErr: getRunbook fails  *)
(* (not found or API error).  updOK: the status update succeeds.           *)
(***************************************************************************)
HandlePending ==
    /\ execution.phase \in PendingCase
    /\ \E rbErr \in BOOLEAN, updOK \in BOOLEAN :
        IF rbErr
        THEN SetPhase(execution, PhaseFailed, "failed to get runbook", updOK)
        ELSE IF runbook.requiresApproval
        THEN SetPhase(execution, PhasePendingApproval, "Awaiting approval", updOK)
        ELSE SetPhase([execution EXCEPT !.startTime = <<now>>], PhaseRunning,
                      "Starting execution", updOK)
    /\ UNCHANGED <<runbook, jobs, now, created>>
    /\ Track
    /\ UNCHANGED <<flowVars, syncVars, workerOwnVars, cacheVars, restVars>>

HandlePendingApproval ==
    /\ execution.phase \in PendingApprovalCase
    /\ \E rbErr \in BOOLEAN, updOK \in BOOLEAN :
        IF execution.approvedBy # ""
        THEN IF rbErr
             THEN UNCHANGED execution
             ELSE IF ~ApproverValid(runbook, execution.approvedBy)
             THEN SetPhase(execution, PhaseFailed,
                           RejectedMessage(execution.approvedBy), updOK)
             ELSE SetPhase([execution EXCEPT !.startTime = <<now>>], PhaseApproved,
                           "Approved, starting execution", updOK)
        ELSE IF rbErr
             THEN UNCHANGED execution
             ELSE IF now - CreationTimestamp > ApprovalTimeoutOf(runbook)
             THEN SetPhase(execution, PhaseTimedOut, "Approval timeout exceeded", updOK)
             ELSE UNCHANGED execution
    /\ UNCHANGED <<runbook, jobs, now, created>>
    /\ Track
    /\ UNCHANGED <<flowVars, syncVars, workerOwnVars, cacheVars, restVars>>

HandleApproved ==
    /\ execution.phase \in ApprovedCase
    /\ \E updOK \in BOOLEAN :
        SetPhase([execution EXCEPT !.startTime = <<now>>], PhaseRunning,
                 "Starting execution", updOK)
    /\ UNCHANGED <<runbook, jobs, now, created>>
    /\ Track
    /\ UNCHANGED <<flowVars, syncVars, workerOwnVars, cacheVars, restVars>>

\* createExecutorJob: r.Create of a Job with the given name.  The API server
\* refuses a second object of the same name; createOK = FALSE is any failure.
CreateExecutorJob(jobName, createOK) ==
    IF createOK /\ jobName \notin DOMAIN jobs
    THEN /\ jobs' = jobs @@ (jobName :> "active")
         /\ created' = Append(created, jobName)
    ELSE UNCHANGED <<jobs, created>>

HandleRunning ==
    /\ execution.phase \in RunningCase
    /\ \E getErr \in BOOLEAN, createOK \in BOOLEAN, updOK \in BOOLEAN :
        LET jobName == ExecutorJobName IN
        IF getErr
        THEN UNCHANGED <<execution, jobs, created>>
        ELSE IF jobName \notin DOMAIN jobs
        THEN /\ CreateExecutorJob(jobName, createOK)
             /\ IF createOK
                THEN StatusUpdate([execution EXCEPT !.jobName = jobName], updOK)
                ELSE UNCHANGED execution
        ELSE /\ UNCHANGED <<jobs, created>>
             /\ IF jobs[jobName] = "succeeded"
                THEN SetPhase(WithCompletion(execution), PhaseCompleted,
                              "Execution completed successfully", updOK)
                ELSE IF jobs[jobName] = "failed"
                THEN SetPhase(execution, PhaseFailed, "Executor job failed", updOK)
                ELSE UNCHANGED execution
    /\ UNCHANGED <<runbook, now>>
    /\ Track
    /\ UNCHANGED <<flowVars, syncVars, workerOwnVars, cacheVars, restVars>>

HandleFailed ==
    /\ execution.phase \in FailedCase
    /\ \E rbErr \in BOOLEAN, updOK \in BOOLEAN :
        IF rbErr
        THEN UNCHANGED execution
        ELSE IF Len(runbook.rollback) > 0
        THEN SetPhase(execution, PhaseRollingBack, "Initiating rollback", updOK)
        ELSE StatusUpdate(WithCompletion(execution), updOK)
    /\ UNCHANGED <<runbook, jobs, now, created>>
    /\ Track
    /\ UNCHANGED <<flowVars, syncVars, workerOwnVars, cacheVars, restVars>>

HandleRollingBack ==
    /\ execution.phase \in RollingBackCase
    /\ \E getErr \in BOOLEAN, createOK \in BOOLEAN, updOK \in BOOLEAN :
        LET jobName == RollbackJobName IN
        IF getErr
        THEN UNCHANGED <<execution, jobs, created>>
        ELSE IF jobName \notin DOMAIN jobs
        THEN /\ CreateExecutorJob(jobName, createOK)
             /\ UNCHANGED execution
        ELSE /\ UNCHANGED <<jobs, created>>
             /\ IF jobs[jobName] = "succeeded"
                THEN SetPhase(WithCompletion(execution), PhaseRolledBack,
                              "Rollback completed", updOK)
                ELSE IF jobs[jobName] = "failed"
                THEN SetPhase(execution, PhaseFailed, "Rollback failed", updOK)
                ELSE UNCHANGED execution
    /\ UNCHANGED <<runbook, now>>
    /\ Track
    /\ UNCHANGED <<flowVars, syncVars, workerOwnVars, cacheVars, restVars>>

\* Reconcile's terminal and default cases: nothing is read further or written.
HandleTerminal ==
    /\ execution.phase \in TerminalPhases
    /\ UNCHANGED <<runbook, execution, jobs, now, created>>
    /\ Track
    /\ UNCHANGED <<flowVars, syncVars, workerOwnVars, cacheVars, restVars>>

Reconcile ==
    \/ HandlePending
    \/ HandlePendingApproval
    \/ HandleApproved
    \/ HandleRunning
    \/ HandleFailed
    \/ HandleRollingBack
    \/ HandleTerminal

(***************************************************************************)
(* The controller's environment.                                           *)
(***************************************************************************)
\* An external actor patches status.approvedBy.
ApprovalPatch ==
    /\ \E n \in PatchNames : execution' = [execution EXCEPT !.approvedBy = n]
    /\ UNCHANGED <<runbook, jobs, now, created>>
    /\ Track
    /\ UNCHANGED <<flowVars, syncVars, workerOwnVars, cacheVars, restVars>>

\* The worker of a Job exits zero: job.Status.Succeeded > 0.
JobSucceeds ==
    /\ \E n \in DOMAIN jobs :
        /\ jobs[n] = "active"
        /\ jobs' = [jobs EXCEPT ![n] = "succeeded"]
    /\ UNCHANGED <<runbook, execution, now, created>>
    /\ Track
    /\ UNCHANGED <<flowVars, syncVars, workerOwnVars, cacheVars, restVars>>

\* The worker of a Job exits non-zero (backoffLimit 0): job.Status.Failed > 0.
JobFails ==
    /\ \E n \in DOMAIN jobs :
        /\ jobs[n] = "active"
        /\ jobs' = [jobs EXCEPT ![n] = "failed"]
    /\ UNCHANGED <<runbook, execution, now, created>>
    /\ Track
    /\ UNCHANGED <<flowVars, syncVars, workerOwnVars, cacheVars, restVars>>

\* Time passes.
Tick ==
    /\ now < MaxTime
    /\ now' = now + 1
    /\ UNCHANGED <<runbook, execution, jobs, created>>
    /\ Track
    /\ UNCHANGED <<flowVars, syncVars, workerOwnVars, cacheVars, restVars>>

NextCtrl ==
    \/ Reconcile
    \/ ApprovalPatch
    \/ JobSucceeds
    \/ JobFails
    \/ Tick

\* An execution is created; the other components are at rest.
InitCtrl == CtrlInit /\ FlowParked /\ SyncParked /\ WorkerParked /\ CacheParked /\ RestParked

SpecCtrl == InitCtrl /\ [][NextCtrl]_vars

\* A reconcile that gets somewhere: its reads and writes succeed and it
\* changes the phase or creates a Job.
ReconcileProgress ==
    Reconcile /\ (execution'.phase # execution.phase \/ created' # created)

\* Reconciles are requeued after every error and every RequeueAfter, so a
\* reconcile that can make progress is eventually run with its API calls
\* succeeding.
SpecCtrlLive == SpecCtrl /\ WF_vars(ReconcileProgress)

\* A created Job's worker reports: the Job succeeds or fails.
JobReports == JobSucceeds \/ JobFails

\* Besides, every Job that was created eventually succeeds or fails, and time
\* passes while an execution waits for its approval.
SpecCtrlFair ==
    SpecCtrl /\ WF_vars(ReconcileProgress) /\ WF_vars(JobReports) /\ WF_vars(Tick)

(***************************************************************************)
(* Runbook worker: main and run of the executor image, the pod of a Job    *)
(* the controller created.  It runs beside the controller.                 *)
(***************************************************************************)
StepPending == "Pending"
StepRunning == "Running"
StepCompleted == "Completed"
StepFailed == "Failed"
StepSkipped == "Skipped"

\* runbook.Spec.Steps of the runbook the execution references.
TemplateSteps ==
    << [name |-> "drain", condition |-> "", continueOnError |-> FALSE],
       [name |-> "notify", condition |-> "{{ .notify }}", continueOnError |-> TRUE],
       [name |-> "verify", condition |-> "", continueOnError |-> FALSE] >>

\* run: steps := runbook.Spec.Steps, whichever Job the pod belongs to.
WorkerSteps(rb, jobName) == TemplateSteps

\* run's first loop: one Pending entry per step.
InitialStepStatuses(steps) ==
    [i \in 1..Len(steps) |->
        [name |-> steps[i].name, status |-> StepPending, output |-> "", error |-> ""]]

MarkRemainingKept(statuses) == statuses

\* run's loop after the steps: what is still Pending becomes Skipped.
MarkRemainingSkipped(statuses) ==
    [i \in 1..Len(statuses) |->
        IF statuses[i].status = StepPending
        THEN [statuses[i] EXCEPT !.status = StepSkipped]
        ELSE statuses[i]]

\* run's `if !step.ContinueOnError` under `if err != nil`: the step's failure
\* ends the loop.
StopsRun(step, outcome) == outcome = "failed" /\ ~step.continueOnError

ExitCodeKept(code, stops) == code

\* run's exitCode after a step: 1 once a failure ended the loop.
ExitCodeAfter(code, stops) == IF stops THEN 1 ELSE code

\* audit.EventType values of the step events.
EventStepStarted == "StepStarted"
EventStepCompleted == "StepCompleted"
EventStepFailed == "StepFailed"

\* Logger.LogEvent: the event is written to the structured log.
LogEvent(log, event) == log \cup {event}

\* Logger.LogStepStart, LogStepComplete and LogStepFailed.
LogStepStart(log, step) ==
    LogEvent(log, [eventType |-> EventStepStarted, stepName |-> step])

LogStepComplete(log, step) ==
    LogEvent(log, [eventType |-> EventStepCompleted, stepName |-> step])

LogStepFailed(log, step) ==
    LogEvent(log, [eventType |-> EventStepFailed, stepName |-> step])

\* Engine.Render of a step's condition against the parameters: what it can
\* return.  Both of its error returns give the empty string with the error.
ConditionRenders ==
    {[result |-> "true", err |-> FALSE], [result |-> "false", err |-> FALSE],
     [result |-> "", err |-> FALSE], [result |-> "", err |-> TRUE]}

ConditionSkipsOnFalse(result) == result = "false"

\* run's `if result == "false" || result == ""`.
ConditionSkips(result) == result = "false" \/ result = ""

\* k8sClient.Status().Update(ctx, &execution) with execution.Status.Steps set
\* to `statuses`: refused when the worker's copy is stale (conflict) or the
\* call fails; run logs the error and goes on.
WorkerStatusUpdate(statuses, updOK) ==
    /\ statusSteps' = IF updOK /\ ~wStale THEN statuses ELSE statusSteps
    /\ wRefused' = (wRefused \/ (~updOK /\ ~wStale))

\* The pod of an active Job starts: main, then run up to the loop over the
\* steps.  The Gets of the execution and the runbook fail (run returns 1) or
\* succeed.  raced: the pod read the execution before the controller's status
\* update that follows the Job's creation, so its copy is already stale.
WorkerStart ==
    /\ wPc \in {"none", "exited"}
    /\ \E n \in DOMAIN jobs :
        /\ jobs[n] = "active"
        /\ n # wJob
        /\ wJob' = n
        /\ \E getOK \in BOOLEAN, raced \in BOOLEAN :
            /\ raced => execution.jobName = n
            /\ IF getOK
               THEN /\ wPc' = "steps"
                    /\ wStepStatuses' = InitialStepStatuses(WorkerSteps(runbook, n))
                    /\ wI' = 1
                    /\ wExitCode' = 0
                    /\ wStale' = raced
               ELSE /\ wPc' = "exiting"
                    /\ wStepStatuses' = <<>>
                    /\ wI' = 0
                    /\ wExitCode' = 1
                    /\ wStale' = FALSE
    /\ wRefused' = FALSE
    /\ UNCHANGED <<statusSteps, ranSteps>>
    /\ UNCHANGED <<ctrlVars, flowVars, syncVars, cacheVars, restVars>>

\* run's loop over the steps, one step.  The step's condition, if it has one,
\* is rendered and the result is "false" or "" (skipped; no status update), or
\* the step is executed and
\* succeeds or fails; a failure without continueOnError sets exitCode 1 and
\* leaves the loop without a status update.  The step's start is audited
\* before its condition is looked at, its failure or completion after it ran.
WorkerStep ==
    /\ wPc = "steps"
    /\ wI <= Len(wStepStatuses)
    /\ LET steps == WorkerSteps(runbook, wJob)
           step == steps[wI]
           renders == IF step.condition # "" THEN {<<r>> : r \in ConditionRenders}
                      ELSE {<<>>}
       IN \E rendered \in renders, execOK \in BOOLEAN, updOK \in BOOLEAN :
            LET outcome == IF rendered # <<>> /\ ConditionSkips(rendered[1].result)
                           THEN "skipped"
                           ELSE IF execOK THEN "completed" ELSE "failed"
                entry ==
                  CASE outcome = "skipped" ->
                          [name |-> step.name, status |-> StepSkipped,
                           output |-> "Condition not met, skipped", error |-> ""]
                    [] outcome = "failed" ->
                          [name |-> step.name, status |-> StepFailed,
                           output |-> "", error |-> "step error"]
                    [] OTHER ->
                          [name |-> step.name, status |-> StepCompleted,
                           output |-> "step output", error |-> ""]
                statuses == [wStepStatuses EXCEPT ![wI] = entry]
                broke == StopsRun(step, outcome)
            IN /\ wStepStatuses' = statuses
               /\ wExitCode' = ExitCodeAfter(wExitCode, broke)
               /\ IF outcome = "skipped" \/ broke
                  THEN UNCHANGED <<statusSteps, wRefused>>
                  ELSE WorkerStatusUpdate(statuses, updOK)
               /\ wI' = wI + 1
               /\ wPc' = IF broke \/ wI = Len(steps) THEN "final" ELSE "steps"
               /\ ranSteps' = IF wJob \in DOMAIN ranSteps
                              THEN [ranSteps EXCEPT ![wJob] = Append(@, step.name)]
                              ELSE (wJob :> <<step.name>>) @@ ranSteps
               /\ condRendered' = rendered
               /\ stepExecuted' = (outcome # "skipped")
               /\ auditLog' =
                     CASE outcome = "skipped" -> LogStepStart(auditLog, step.name)
                       [] outcome = "failed" ->
                             LogStepFailed(LogStepStart(auditLog, step.name), step.name)
                       [] OTHER ->
                             LogStepComplete(LogStepStart(auditLog, step.name), step.name)
    /\ UNCHANGED <<wJob, wStale>>
    /\ UNCHANGED <<ctrlVars, flowVars, syncVars, cacheVars, tmplVars, enrichVars, shutVars,
                   pathVars>>

\* run after the loop: mark the remaining steps Skipped and write the final
\* status; a failed write is logged.  run returns exitCode.  The record of
\* the last step's condition ends with the loop.
WorkerFinal ==
    /\ wPc = "final"
    /\ wStepStatuses' = MarkRemainingSkipped(wStepStatuses)
    /\ \E updOK \in BOOLEAN : WorkerStatusUpdate(wStepStatuses', updOK)
    /\ wPc' = "exiting"
    /\ condRendered' = <<>>
    /\ stepExecuted' = FALSE
    /\ UNCHANGED <<wJob, wI, wExitCode, wStale, ranSteps>>
    /\ UNCHANGED <<ctrlVars, flowVars, syncVars, cacheVars, tmplVars, enrichVars, auditVars,
                   shutVars, pathVars>>

\* main: os.Exit(exitCode).  The Job (backoffLimit 0) succeeds on 0 and fails
\* on anything else.
WorkerExit ==
    /\ wPc = "exiting"
    /\ wPc' = "exited"
    /\ jobs' = [jobs EXCEPT ![wJob] = IF wExitCode = 0 THEN "succeeded" ELSE "failed"]
    /\ UNCHANGED <<wJob, wI, wStepStatuses, wExitCode, wStale, statusSteps, ranSteps,
                   wRefused>>
    /\ UNCHANGED <<runbook, execution, now, created, everApprover, everAwaited, lapsed,
                   everRunning>>
    /\ UNCHANGED <<flowVars, syncVars, cacheVars, restVars>>

NextWorker ==
    \/ Reconcile
    \/ ApprovalPatch
    \/ Tick
    \/ WorkerStart
    \/ WorkerStep
    \/ WorkerFinal
    \/ WorkerExit

\* An execution is created, of a runbook that leaves approvalTimeout unset; no
\* pod runs yet.
InitWorker ==
    /\ CtrlInit
    /\ runbook.approvalTimeout = ""
    /\ WorkerParked /\ FlowParked /\ SyncParked /\ CacheParked /\ RestParked

SpecWorker == InitWorker /\ [][NextWorker]_vars

(***************************************************************************)
(* Runbook controller: RunbookReconciler.Reconcile and validateRunbook on   *)
(* one Runbook object, and the worker's executeStep on a step of it.        *)
(***************************************************************************)
ActionGNMISet == "gnmi_set"
ActionGNMIGet == "gnmi_get"
ActionGNMISubscribe == "gnmi_subscribe"
ActionWait == "wait"
ActionNotify == "notify"
ActionCondition == "condition"
ActionScript == "script"

\* validateRunbook's allowedActions.
AllowedActions ==
    {ActionGNMISet, ActionGNMIGet, ActionGNMISubscribe, ActionWait, ActionNotify,
     ActionCondition}

\* Steps a Runbook may list: unnamed, without action, or named with one of the
\* StepAction values.
RunbookSteps ==
    {[name |-> "", action |-> ActionWait], [name |-> "check", action |-> ""]}
        \cup {[name |-> "check", action |-> a] : a \in AllowedActions \cup {ActionScript}}

\* Spec.Steps values: no step, one step, two steps.
RunbookStepLists ==
    {<<>>} \cup {<<s>> : s \in RunbookSteps}
           \cup {<<s, t>> : s \in RunbookSteps, t \in RunbookSteps}

\* Spec.Name values.
RunbookNames == {"", "drain-node"}

\* The Runbook specs of the model.
Templates ==
    [name : RunbookNames, steps : RunbookStepLists, requiresApproval : BOOLEAN,
     approvers : ApproverLists]

\* validateRunbook's loop over the steps from index i (1-based here, 0-based
\* in the messages): the first step's error, "" when there is none.
RECURSIVE StepError(_, _)
StepError(steps, i) ==
    IF i > Len(steps) THEN ""
    ELSE IF steps[i].name = ""
    THEN "step " \o ToString(i - 1) \o ": name is required"
    ELSE IF steps[i].action = ""
    THEN "step " \o ToString(i - 1) \o ": action is required"
    ELSE IF steps[i].action \notin AllowedActions
    THEN "step " \o ToString(i - 1) \o ": action \"" \o steps[i].action
            \o "\" is not allowed"
    ELSE StepError(steps, i + 1)

ValidateRunbookIgnoringApprovers(rb) ==
    IF rb.name = "" THEN "runbook name is required"
    ELSE IF Len(rb.steps) = 0 THEN "runbook must have at least one step"
    ELSE StepError(rb.steps, 1)

\* validateRunbook: the error's text, "" for nil.
ValidateRunbook(rb) ==
    IF rb.name = "" THEN "runbook name is required"
    ELSE IF Len(rb.steps) = 0 THEN "runbook must have at least one step"
    ELSE IF rb.requiresApproval /\ Len(rb.approvers) = 0
    THEN "approvers required when requiresApproval is true"
    ELSE StepError(rb.steps, 1)

\* meta.SetStatusCondition: the condition of the same type is overwritten, a
\* new type is appended (LastTransitionTime is left out of the model).
SetStatusCondition(conds, c) ==
    IF \E i \in 1..Len(conds) : conds[i].type = c.type
    THEN [i \in 1..Len(conds) |-> IF conds[i].type = c.type THEN c ELSE conds[i]]
    ELSE Append(conds, c)

\* The Ready condition is present with status True.
IsReady(conds) ==
    \E i \in 1..Len(conds) : conds[i].type = "Ready" /\ conds[i].status = "True"

\* A Runbook object is created; nothing has reconciled it yet.
RunbookInit ==
    /\ tmpl \in Templates
    /\ rbConditions = <<>>
    /\ rbFresh = FALSE
    /\ stepRun = <<>>

\* RunbookReconciler.Reconcile: Get the Runbook (a failure ends the
\* reconcile), validate it, set the Ready condition and write the status (a
\* failed write is returned as the error).
RunbookReconcile ==
    /\ \E getOK \in BOOLEAN, updOK \in BOOLEAN :
        LET err == ValidateRunbook(tmpl)
            cond == IF err # ""
                    THEN [type |-> "Ready", status |-> "False",
                          reason |-> "ValidationFailed", message |-> err]
                    ELSE [type |-> "Ready", status |-> "True",
                          reason |-> "Valid", message |-> "Runbook schema is valid"]
        IN IF getOK /\ updOK
           THEN /\ rbConditions' = SetStatusCondition(rbConditions, cond)
                /\ rbFresh' = TRUE
           ELSE UNCHANGED <<rbConditions, rbFresh>>
    /\ stepRun' = <<>>
    /\ UNCHANGED tmpl
    /\ UNCHANGED <<ctrlVars, flowVars, syncVars, workerVars, cacheVars, enrichVars, laterVars>>

\* A user changes the Runbook's spec: the name, the approval requirement, the
\* approvers, or the step list by one step added or removed at its end.
TemplateEdit ==
    /\ \E t \in {[tmpl EXCEPT !.name = n] : n \in RunbookNames}
                \cup {[tmpl EXCEPT !.requiresApproval = ~tmpl.requiresApproval]}
                \cup {[tmpl EXCEPT !.approvers = a] : a \in ApproverLists}
                \cup {[tmpl EXCEPT !.steps = Append(tmpl.steps, s)] : s \in RunbookSteps}
                \cup {[tmpl EXCEPT !.steps = SubSeq(tmpl.steps, 1, Len(tmpl.steps) - 1)]} :
        /\ t # tmpl
        /\ t \in Templates
        /\ tmpl' = t
    /\ rbFresh' = FALSE
    /\ stepRun' = <<>>
    /\ UNCHANGED rbConditions
    /\ UNCHANGED <<ctrlVars, flowVars, syncVars, workerVars, cacheVars, enrichVars, laterVars>>

\* The rendered step config's "target" values: absent, or a device address.
StepTargets == {"", "router-1:57400"}

\* gnmic.NewClient(address, "", "", log, opts...): tlsConfig stays nil unless
\* the WithTLS option is passed.
NewClient(address, opts) ==
    [address |-> address,
     tlsConfig |-> IF "WithTLS" \in opts THEN "config" ELSE "nil",
     conn |-> FALSE]

\* The options executeGNMISet and executeGNMIGet pass to NewClient: none.
WorkerClientOptions == {}

\* Client.Connect: an error when tlsConfig is nil, else the dial with TLS
\* transport credentials.
Connect(c, dialOK) ==
    IF c.tlsConfig = "nil"
    THEN [client |-> c,
          err |-> "TLS configuration is required for gNMI connections to " \o c.address]
    ELSE IF ~dialOK
    THEN [client |-> c, err |-> "failed to connect to " \o c.address]
    ELSE [client |-> [c EXCEPT !.conn = TRUE], err |-> ""]

\* What can go wrong in a step handler: nothing, the config's rendering, the
\* dial, the RPC, the wait.
StepFaults == {"none", "render", "dial", "rpc", "wait"}

\* What a step handler does: its output and error, the client it made (if
\* any) and whether an RPC went out on the client's connection.
StepResult(output, error, client, rpc) ==
    [output |-> output, error |-> error, client |-> client, rpc |-> rpc]

\* executeGNMISet.
ExecuteGNMISet(target, dryRun, fault) ==
    IF fault = "render" THEN StepResult("", "failed to render config", <<>>, FALSE)
    ELSE IF target = ""
    THEN StepResult("", "gNMI target not specified in step config", <<>>, FALSE)
    ELSE IF dryRun
    THEN StepResult("[DRY RUN] Would execute gNMI Set on " \o target, "", <<>>, FALSE)
    ELSE LET r == Connect(NewClient(target, WorkerClientOptions), fault # "dial")
         IN IF r.err # ""
            THEN StepResult("", "failed to connect to " \o target \o ": " \o r.err,
                            <<r.client>>, FALSE)
            ELSE IF fault = "rpc"
            THEN StepResult("", "gNMI Set failed", <<r.client>>, TRUE)
            ELSE StepResult("gNMI Set completed on " \o target, "", <<r.client>>, TRUE)

\* executeGNMIGet.
ExecuteGNMIGet(target, fault) ==
    IF fault = "render" THEN StepResult("", "failed to render config", <<>>, FALSE)
    ELSE IF target = ""
    THEN StepResult("", "gNMI target not specified in step config", <<>>, FALSE)
    ELSE LET r == Connect(NewClient(target, WorkerClientOptions), fault # "dial")
         IN IF r.err # ""
            THEN StepResult("", "failed to connect to " \o target \o ": " \o r.err,
                            <<r.client>>, FALSE)
            ELSE IF fault = "rpc"
            THEN StepResult("", "gNMI Get failed", <<r.client>>, TRUE)
            ELSE StepResult("response", "", <<r.client>>, TRUE)

\* executeWait: the duration does not parse or ctx ends first, or the wait
\* runs to its end.
ExecuteWait(fault) ==
    IF fault # "wait" THEN StepResult("waited", "", <<>>, FALSE)
    ELSE StepResult("", "wait failed", <<>>, FALSE)

\* executeStep: the switch on step.Action.
ExecuteStepOf(step, target, dryRun, fault) ==
    CASE step.action = ActionGNMISet -> ExecuteGNMISet(target, dryRun, fault)
      [] step.action = ActionGNMIGet -> ExecuteGNMIGet(target, fault)
      [] step.action = ActionWait -> ExecuteWait(fault)
      [] step.action = ActionNotify -> StepResult("notification sent", "", <<>>, FALSE)
      [] step.action = ActionCondition -> StepResult("condition evaluated", "", <<>>, FALSE)
      [] OTHER -> StepResult("", "unsupported action: " \o step.action, <<>>, FALSE)

\* The worker executes one step of the Runbook (run's call of executeStep).
ExecuteStep ==
    /\ \E i \in 1..Len(tmpl.steps), target \in StepTargets, dryRun \in BOOLEAN,
          fault \in StepFaults :
        stepRun' = <<[step |-> tmpl.steps[i],
                      dryRun |-> dryRun,
                      target |-> target,
                      ready |-> rbFresh /\ IsReady(rbConditions),
                      result |-> ExecuteStepOf(tmpl.steps[i], target, dryRun, fault)]>>
    /\ UNCHANGED <<tmpl, rbConditions, rbFresh>>
    /\ UNCHANGED <<ctrlVars, flowVars, syncVars, workerVars, cacheVars, enrichVars, laterVars>>

NextRunbook ==
    \/ RunbookReconcile
    \/ TemplateEdit
    \/ ExecuteStep

InitRunbook ==
    /\ RunbookInit /\ EnrichParked /\ LaterParked
    /\ CtrlParked /\ FlowParked /\ SyncParked /\ WorkerParked /\ CacheParked

SpecRunbook == InitRunbook /\ [][NextRunbook]_vars

(***************************************************************************)
(* Flow enricher: kafka.Consumer (Start, pollBatch), the handler of main   *)
(* and kafka.Producer (ProduceBatch).  A record is known by its offset in  *)
(* the raw topic.                                                          *)
(***************************************************************************)
\* A raw record's Value: it unmarshals into an EnrichedFlow, or it does not.
RawRecords == {"flow", "garbage"}

\* The elements of a sequence.
Range(seq) == {seq[i] : i \in 1..Len(seq)}

\* How many times x occurs in seq.
Count(x, seq) == Cardinality({i \in 1..Len(seq) : seq[i] = x})

\* The consumer subscribes at the end of the topic (auto.offset.reset =
\* latest); rawTopic holds the records that arrive afterwards.
FlowInit ==
    /\ rawTopic \in [1..MaxRaw -> RawRecords]
    /\ position = 1
    /\ storedOffsets = {}
    /\ committed = {}
    /\ cpc = "select"
    /\ batch = <<>>
    /\ pollI = 0
    /\ prodK = 1
    /\ inflight = {}
    /\ deliveryChan = <<>>
    /\ received = 0
    /\ errs = 0
    /\ enriched = <<>>
    /\ cancelled = FALSE
    /\ confirmed = {}
    /\ finished = {}
    /\ brokersDown = FALSE

\* Start's select, case <-ctx.Done(): close the consumer and return.
StartShutdown ==
    /\ cpc = "select"
    /\ cancelled
    /\ cpc' = "closed"
    /\ UNCHANGED <<rawTopic, position, storedOffsets, committed, batch, pollI, prodK,
                   inflight, deliveryChan, received, errs, enriched, cancelled, brokersDown,
                   confirmed, finished>>
    /\ UNCHANGED <<ctrlVars, syncVars, workerVars, cacheVars, restVars>>

\* Start's select, case <-ticker.C: pollBatch begins with an empty batch.
StartTick ==
    /\ cpc = "select"
    /\ cpc' = "poll"
    /\ batch' = <<>>
    /\ pollI' = 0
    /\ UNCHANGED <<rawTopic, position, storedOffsets, committed, prodK,
                   inflight, deliveryChan, received, errs, enriched, cancelled, brokersDown,
                   confirmed, finished>>
    /\ UNCHANGED <<ctrlVars, syncVars, workerVars, cacheVars, restVars>>

\* Start, once pollBatch has returned (b, err): an error is logged and the
\* loop continues, an empty batch is skipped, anything else goes to the
\* handler, which enriches each flow and calls ProduceBatch.
AfterPoll(b, err) ==
    IF err
    THEN /\ cpc' = "select"
         /\ batch' = <<>>
         /\ finished' = finished \cup Range(b)
         /\ UNCHANGED <<prodK, deliveryChan, received, errs>>
    ELSE IF Len(b) = 0
    THEN /\ cpc' = "select"
         /\ batch' = b
         /\ UNCHANGED <<prodK, deliveryChan, received, errs, finished>>
    ELSE /\ cpc' = "produce"
         /\ batch' = b
         /\ prodK' = 1
         /\ deliveryChan' = <<>>
         /\ received' = 0
         /\ errs' = 0
         /\ UNCHANGED finished

\* pollBatch: the loop has run batchSize times.
PollFull ==
    /\ cpc = "poll"
    /\ pollI >= BatchSize
    /\ AfterPoll(batch, FALSE)
    /\ UNCHANGED <<rawTopic, position, storedOffsets, committed, pollI,
                   inflight, enriched, cancelled, brokersDown, confirmed>>
    /\ UNCHANGED <<ctrlVars, syncVars, workerVars, cacheVars, restVars>>

\* pollBatch: ctx is done at the top of an iteration: return batch, ctx.Err().
PollCancelled ==
    /\ cpc = "poll"
    /\ pollI < BatchSize
    /\ cancelled
    /\ AfterPoll(batch, TRUE)
    /\ UNCHANGED <<rawTopic, position, storedOffsets, committed, pollI,
                   inflight, enriched, cancelled, brokersDown, confirmed>>
    /\ UNCHANGED <<ctrlVars, syncVars, workerVars, cacheVars, restVars>>

\* pollBatch: Poll times out (ev == nil): break, return batch, nil.
PollNil ==
    /\ cpc = "poll"
    /\ pollI < BatchSize
    /\ ~cancelled
    /\ AfterPoll(batch, FALSE)
    /\ UNCHANGED <<rawTopic, position, storedOffsets, committed, pollI,
                   inflight, enriched, cancelled, brokersDown, confirmed>>
    /\ UNCHANGED <<ctrlVars, syncVars, workerVars, cacheVars, restVars>>

\* pollBatch: Poll returns a *kafka.Message.  A value that does not unmarshal
\* is skipped; a flow is appended and its offset stored (StoreMessage may
\* fail, which is only logged).
PollMessage ==
    /\ cpc = "poll"
    /\ pollI < BatchSize
    /\ ~cancelled
    /\ position <= Len(rawTopic)
    /\ position' = position + 1
    /\ pollI' = pollI + 1
    /\ IF rawTopic[position] = "flow"
       THEN /\ batch' = Append(batch, position)
            /\ \E storeOK \in BOOLEAN :
                storedOffsets' = IF storeOK THEN storedOffsets \cup {position}
                                 ELSE storedOffsets
       ELSE UNCHANGED <<batch, storedOffsets>>
    /\ UNCHANGED <<rawTopic, committed, cpc, prodK, inflight, deliveryChan, received,
                   errs, enriched, cancelled, brokersDown, confirmed, finished>>
    /\ UNCHANGED <<ctrlVars, syncVars, workerVars, cacheVars, restVars>>

\* pollBatch: Poll returns a kafka.Error.  ErrAllBrokersDown returns the batch
\* with an error; any other error is logged and the loop goes on.
PollError ==
    /\ cpc = "poll"
    /\ pollI < BatchSize
    /\ ~cancelled
    /\ \E allBrokersDown \in BOOLEAN :
        /\ brokersDown' = (brokersDown \/ allBrokersDown)
        /\ IF allBrokersDown
           THEN AfterPoll(batch, TRUE) /\ UNCHANGED pollI
           ELSE /\ pollI' = pollI + 1
                /\ UNCHANGED <<cpc, batch, prodK, deliveryChan, received, errs, finished>>
    /\ UNCHANGED <<rawTopic, position, storedOffsets, committed,
                   inflight, enriched, cancelled, confirmed>>
    /\ UNCHANGED <<ctrlVars, syncVars, workerVars, cacheVars, restVars>>

\* ProduceBatch's first loop, one flow: marshal it and hand it to Produce.
\* A flow that fails to marshal or to enqueue is logged and left out.
ProduceOne ==
    /\ cpc = "produce"
    /\ prodK <= Len(batch)
    /\ \E marshalOK \in BOOLEAN, enqueueOK \in BOOLEAN :
        inflight' = IF marshalOK /\ enqueueOK THEN inflight \cup {batch[prodK]}
                    ELSE inflight
    /\ prodK' = prodK + 1
    /\ cpc' = IF prodK = Len(batch) THEN "wait" ELSE "produce"
    /\ UNCHANGED <<rawTopic, position, storedOffsets, committed, batch, pollI,
                   deliveryChan, received, errs, enriched, cancelled, brokersDown,
                   confirmed, finished>>
    /\ UNCHANGED <<ctrlVars, syncVars, workerVars, cacheVars, restVars>>

\* ProduceBatch's second loop, case e := <-deliveryChan.
WaitReceive ==
    /\ cpc = "wait"
    /\ received < Len(batch)
    /\ deliveryChan # <<>>
    /\ received' = received + 1
    /\ errs' = errs + (IF Head(deliveryChan).failed THEN 1 ELSE 0)
    /\ deliveryChan' = Tail(deliveryChan)
    /\ UNCHANGED <<rawTopic, position, storedOffsets, committed, cpc, batch, pollI,
                   prodK, inflight, enriched, cancelled, brokersDown, confirmed, finished>>
    /\ UNCHANGED <<ctrlVars, syncVars, workerVars, cacheVars, restVars>>

\* ProduceBatch's second loop, case <-ctx.Done(): return ctx.Err(); Start logs it.
WaitCancelled ==
    /\ cpc = "wait"
    /\ received < Len(batch)
    /\ cancelled
    /\ cpc' = "select"
    /\ finished' = finished \cup Range(batch)
    /\ UNCHANGED <<rawTopic, position, storedOffsets, committed, batch, pollI, prodK,
                   inflight, deliveryChan, received, errs, enriched, cancelled, brokersDown,
                   confirmed>>
    /\ UNCHANGED <<ctrlVars, syncVars, workerVars, cacheVars, restVars>>

\* ProduceBatch has received len(flows) reports: it returns an error when any
\* delivery failed and nil otherwise; Start logs an error and goes on.
WaitDone ==
    /\ cpc = "wait"
    /\ received = Len(batch)
    /\ cpc' = "select"
    /\ finished' = finished \cup Range(batch)
    /\ confirmed' = IF errs = 0 THEN confirmed \cup Range(batch) ELSE confirmed
    /\ UNCHANGED <<rawTopic, position, storedOffsets, committed, batch, pollI, prodK,
                   inflight, deliveryChan, received, errs, enriched, cancelled, brokersDown>>
    /\ UNCHANGED <<ctrlVars, syncVars, workerVars, cacheVars, restVars>>

\* The producer client reports on an enqueued record: it was written to the
\* enriched topic, or its delivery failed for good.
Deliver ==
    /\ \E o \in inflight, ok \in BOOLEAN :
        /\ inflight' = inflight \ {o}
        /\ enriched' = IF ok THEN Append(enriched, o) ELSE enriched
        /\ deliveryChan' = Append(deliveryChan, [offset |-> o, failed |-> ~ok])
    /\ UNCHANGED <<rawTopic, position, storedOffsets, committed, cpc, batch, pollI,
                   prodK, received, errs, cancelled, brokersDown, confirmed, finished>>
    /\ UNCHANGED <<ctrlVars, syncVars, workerVars, cacheVars, restVars>>

\* The consumer client's auto-commit (enable.auto.commit is left at its
\* default) commits the stored offsets.
AutoCommit ==
    /\ committed # storedOffsets
    /\ committed' = storedOffsets
    /\ UNCHANGED <<rawTopic, position, storedOffsets, cpc, batch, pollI, prodK,
                   inflight, deliveryChan, received, errs, enriched, cancelled, brokersDown,
                   confirmed, finished>>
    /\ UNCHANGED <<ctrlVars, syncVars, workerVars, cacheVars, restVars>>

\* SIGINT/SIGTERM: the top-level context is cancelled.
Cancel ==
    /\ ~cancelled
    /\ cancelled' = TRUE
    /\ UNCHANGED <<rawTopic, position, storedOffsets, committed, cpc, batch, pollI,
                   prodK, inflight, deliveryChan, received, errs, enriched,
                   confirmed, finished, brokersDown>>
    /\ UNCHANGED <<ctrlVars, syncVars, workerVars, cacheVars, restVars>>

NextFlow ==
    \/ StartShutdown
    \/ StartTick
    \/ PollFull
    \/ PollCancelled
    \/ PollNil
    \/ PollMessage
    \/ PollError
    \/ ProduceOne
    \/ WaitReceive
    \/ WaitCancelled
    \/ WaitDone
    \/ Deliver
    \/ AutoCommit
    \/ Cancel

\* The enricher starts; the other components are at rest.
InitFlow == FlowInit /\ CtrlParked /\ SyncParked /\ WorkerParked /\ CacheParked /\ RestParked

SpecFlow == InitFlow /\ [][NextFlow]_vars

(***************************************************************************)
(* Flow enricher: NetBoxCache (Start, refresh, fetchDevices,               *)
(* fetchInterfaces, LookupByIP).  Strings the code takes apart are kept as *)
(* sequences of tokens.                                                    *)
(***************************************************************************)
\* netboxInterface values: speed and snmpIndex are <<>> (nil) or <<n>>; label
\* is the sequence of its characters.
Eth1 == [name |-> "Ethernet1", speed |-> <<10000000>>, snmpIndex |-> <<1001>>, label |-> <<>>]

Eth2 == [name |-> "Ethernet2", speed |-> <<>>, snmpIndex |-> <<>>, label |-> <<"7">>]

Mgmt0 == [name |-> "mgmt0", speed |-> <<1000000>>, snmpIndex |-> <<>>,
          label |-> <<"u", "p", "1">>]

Lo0 == [name |-> "Loopback0", speed |-> <<>>, snmpIndex |-> <<-1>>, label |-> <<>>]

Vlan1 == [name |-> "Vlan1", speed |-> <<>>, snmpIndex |-> <<0>>, label |-> <<"5">>]

\* netboxDevice values, each with the interfaces NetBox lists for it; address
\* is primary_ip.address as tokens, <<>> when primary_ip is null.
NBRouter1 ==
    [id |-> 1, name |-> "router-1", address |-> <<"10.0.0.1", "/", "32">>,
     site |-> "dc1", region |-> "us-east", role |-> "spine", interfaces |-> <<Eth1, Eth2>>]

NBSwitch1 ==
    [id |-> 2, name |-> "switch-1", address |-> <<"10.0.0.2">>,
     site |-> "dc1", region |-> "", role |-> "leaf", interfaces |-> <<Mgmt0, Lo0, Vlan1>>]

NBEdge1 ==
    [id |-> 3, name |-> "edge-1", address |-> <<>>,
     site |-> "dc2", region |-> "us-west", role |-> "edge", interfaces |-> <<>>]

NBCore1 ==
    [id |-> 4, name |-> "core-1", address |-> <<"10.0.0.3", "/", "24">>,
     site |-> "dc2", region |-> "us-west", role |-> "core", interfaces |-> <<Eth1>>]

\* What NetBox can hold: the monitored, active devices in listing order.
NBInventories ==
    { <<NBRouter1, NBSwitch1, NBCore1>>, <<NBRouter1, NBEdge1, NBCore1>>, <<NBSwitch1>> }

\* Addresses readers look up.
LookupIPs == {"10.0.0.1", "10.0.0.3"}

\* Refreshes Start runs: the initial load and the ticker's.
MaxRefresh == 2

\* stripCIDR: the address up to its first '/'.
RECURSIVE StripCIDR(_)
StripCIDR(addr) ==
    IF addr = <<>> \/ Head(addr) = "/" THEN ""
    ELSE Head(addr) \o StripCIDR(Tail(addr))

\* The value of a decimal digit, -1 for any other character.
DigitValue(ch) ==
    CASE ch = "0" -> 0 [] ch = "1" -> 1 [] ch = "2" -> 2 [] ch = "3" -> 3 [] ch = "4" -> 4
      [] ch = "5" -> 5 [] ch = "6" -> 6 [] ch = "7" -> 7 [] ch = "8" -> 8 [] ch = "9" -> 9
      [] OTHER -> -1

\* fmt.Sscanf(label, "%d", &parsed): the leading digits' value, acc so far;
\* <<>> when there is no leading digit (err != nil).
RECURSIVE ScanDigits(_, _, _)
ScanDigits(label, acc, any) ==
    IF label = <<>> \/ DigitValue(Head(label)) < 0
    THEN IF any THEN <<acc>> ELSE <<>>
    ELSE ScanDigits(Tail(label), acc * 10 + DigitValue(Head(label)), TRUE)

\* uint32(n) of an int n.  A uint32 is kept as its 32-bit word read as a
\* signed number, the integers here ending at 2^31 - 1: a word w < 0 stands
\* for the value w + 2^32.  The conversion keeps the low 32 bits, so for n
\* within -2^31 .. 2^31 - 1 the word is n.
Uint32(n) == n

\* fetchInterfaces: the SNMP index of one interface, 0 when there is none.
SNMPIndexOf(iface) ==
    IF iface.snmpIndex # <<>>
    THEN Uint32(iface.snmpIndex[1])
    ELSE IF iface.label # <<>>
    THEN LET parsed == ScanDigits(iface.label, 0, FALSE)
         IN IF parsed # <<>> /\ parsed[1] > 0 THEN parsed[1] ELSE 0
    ELSE 0

\* fetchInterfaces' loop over the interfaces of a device: index -> metadata.
RECURSIVE InterfacesOf(_)
InterfacesOf(ifaces) ==
    IF ifaces = <<>> THEN <<>>
    ELSE LET iface == ifaces[Len(ifaces)]
             rest == InterfacesOf(SubSeq(ifaces, 1, Len(ifaces) - 1))
         IN IF SNMPIndexOf(iface) = 0
            THEN rest
            ELSE (SNMPIndexOf(iface) :>
                    [name |-> iface.name,
                     speed |-> IF iface.speed # <<>> THEN iface.speed[1] ELSE 0]) @@ rest

\* fetchDevices' loop body for the devices of one page, added to the local map.
\* ifFail: the ids of the devices whose interface fetch fails.
RECURSIVE AddPage(_, _, _)
AddPage(local, page, ifFail) ==
    IF page = <<>> THEN local
    ELSE LET d == Head(page)
             meta == [name |-> d.name, site |-> d.site, region |-> d.region,
                      role |-> d.role,
                      interfaces |-> IF d.id \in ifFail THEN <<>>
                                     ELSE InterfacesOf(d.interfaces)]
         IN IF d.address = <<>> \/ StripCIDR(d.address) = ""
            THEN AddPage(local, Tail(page), ifFail)
            ELSE AddPage((StripCIDR(d.address) :> meta) @@ local, Tail(page), ifFail)

\* The devices on page k of a listing.
PageOf(inv, k) ==
    SubSeq(inv, (k - 1) * PageSize + 1,
           IF k * PageSize < Len(inv) THEN k * PageSize ELSE Len(inv))

CacheAfterPageShared(installed, local) == local

\* c.devices once fetchDevices has handled a page: fetchDevices fills a map of
\* its own, the installed map is not touched.
CacheAfterPage(installed, local) == installed

RefreshNeverAborts(err) == FALSE

\* refresh returns early when fetchDevices failed.
RefreshAborts(err) == err

\* NewNetBoxCache: an empty map; Start has not run yet.
CacheInit ==
    /\ nbInventory \in NBInventories
    /\ cDevices = <<>>
    /\ mu = [writer |-> FALSE, readers |-> 0]
    /\ refPc = "idle"
    /\ refLocal = <<>>
    /\ refPage = 0
    /\ refErr = FALSE
    /\ refreshes = 0
    /\ rdPc = "idle"
    /\ rdIP = ""
    /\ rdGot = <<>>
    /\ installs = <<>>
    /\ installInvs = <<>>
    /\ rdLo = 0
    /\ atStart = <<>>

\* Start calls refresh (the initial load, then on every tick of the ticker);
\* fetchDevices makes its local map.
RefreshStart ==
    /\ refPc = "idle"
    /\ refreshes < MaxRefresh
    /\ refreshes' = refreshes + 1
    /\ refPc' = "fetch"
    /\ refLocal' = <<>>
    /\ refPage' = 1
    /\ refErr' = FALSE
    /\ atStart' = cDevices
    /\ UNCHANGED <<nbInventory, cDevices, mu, rdPc, rdIP, rdGot, installs, installInvs, rdLo>>
    /\ UNCHANGED <<ctrlVars, flowVars, syncVars, workerVars, restVars>>

\* fetchDevices, one turn of its loop: fetchPage fails and fetchDevices
\* returns nil and the error, or the page's devices go into the local map.
FetchPage ==
    /\ refPc = "fetch"
    /\ \E pageErr \in BOOLEAN, ifFail \in SUBSET {1, 4} :
        IF pageErr
        THEN /\ refErr' = TRUE
             /\ refLocal' = <<>>
             /\ refPc' = "fetched"
             /\ UNCHANGED <<refPage, cDevices>>
        ELSE /\ refLocal' = AddPage(refLocal, PageOf(nbInventory, refPage), ifFail)
             /\ cDevices' = CacheAfterPage(cDevices, refLocal')
             /\ refPage' = refPage + 1
             /\ refPc' = IF refPage * PageSize < Len(nbInventory) THEN "fetch" ELSE "fetched"
             /\ UNCHANGED refErr
    /\ UNCHANGED <<nbInventory, mu, refreshes, rdPc, rdIP, rdGot, installs, installInvs,
                   rdLo, atStart>>
    /\ UNCHANGED <<ctrlVars, flowVars, syncVars, workerVars, restVars>>

\* refresh: fetchDevices failed; refresh returns the error and Start logs it.
RefreshAbort ==
    /\ refPc = "fetched"
    /\ RefreshAborts(refErr)
    /\ refPc' = "idle"
    /\ UNCHANGED <<nbInventory, cDevices, mu, refLocal, refPage, refErr, refreshes,
                   rdPc, rdIP, rdGot, installs, installInvs, rdLo, atStart>>
    /\ UNCHANGED <<ctrlVars, flowVars, syncVars, workerVars, restVars>>

\* refresh: c.mu.Lock(), which waits for the readers to leave.
RefreshLock ==
    /\ refPc = "fetched"
    /\ ~RefreshAborts(refErr)
    /\ ~mu.writer /\ mu.readers = 0
    /\ mu' = [mu EXCEPT !.writer = TRUE]
    /\ refPc' = "locked"
    /\ UNCHANGED <<nbInventory, cDevices, refLocal, refPage, refErr, refreshes,
                   rdPc, rdIP, rdGot, installs, installInvs, rdLo, atStart>>
    /\ UNCHANGED <<ctrlVars, flowVars, syncVars, workerVars, restVars>>

\* refresh: c.devices = devices.
RefreshAssign ==
    /\ refPc = "locked"
    /\ cDevices' = refLocal
    /\ installs' = Append(installs, refLocal)
    /\ installInvs' = Append(installInvs, nbInventory)
    /\ refPc' = "assigned"
    /\ UNCHANGED <<nbInventory, mu, refLocal, refPage, refErr, refreshes,
                   rdPc, rdIP, rdGot, rdLo, atStart>>
    /\ UNCHANGED <<ctrlVars, flowVars, syncVars, workerVars, restVars>>

\* refresh: c.mu.Unlock(); refresh returns nil.
RefreshUnlock ==
    /\ refPc = "assigned"
    /\ mu' = [mu EXCEPT !.writer = FALSE]
    /\ refPc' = "idle"
    /\ UNCHANGED <<nbInventory, cDevices, refLocal, refPage, refErr, refreshes,
                   rdPc, rdIP, rdGot, installs, installInvs, rdLo, atStart>>
    /\ UNCHANGED <<ctrlVars, flowVars, syncVars, workerVars, restVars>>

\* The enricher calls LookupByIP for a flow's exporter address.
LookupCall ==
    /\ rdPc = "idle"
    /\ \E ip \in LookupIPs : rdIP' = ip
    /\ rdLo' = Len(installs)
    /\ rdPc' = "called"
    /\ UNCHANGED <<nbInventory, cDevices, mu, refPc, refLocal, refPage, refErr, refreshes,
                   rdGot, installs, installInvs, atStart>>
    /\ UNCHANGED <<ctrlVars, flowVars, syncVars, workerVars, restVars>>

\* LookupByIP: c.mu.RLock(), which waits while the writer holds the lock.
LookupRLock ==
    /\ rdPc = "called"
    /\ ~mu.writer
    /\ mu' = [mu EXCEPT !.readers = @ + 1]
    /\ rdPc' = "rlocked"
    /\ UNCHANGED <<nbInventory, cDevices, refPc, refLocal, refPage, refErr, refreshes,
                   rdIP, rdGot, installs, installInvs, rdLo, atStart>>
    /\ UNCHANGED <<ctrlVars, flowVars, syncVars, workerVars, restVars>>

\* LookupByIP: meta, ok := c.devices[ip.String()].
LookupRead ==
    /\ rdPc = "rlocked"
    /\ rdGot' = IF rdIP \in DOMAIN cDevices THEN <<cDevices[rdIP]>> ELSE <<>>
    /\ rdPc' = "read"
    /\ UNCHANGED <<nbInventory, cDevices, mu, refPc, refLocal, refPage, refErr, refreshes,
                   rdIP, installs, installInvs, rdLo, atStart>>
    /\ UNCHANGED <<ctrlVars, flowVars, syncVars, workerVars, restVars>>

\* LookupByIP: the deferred c.mu.RUnlock(); the caller has meta, ok.
LookupReturn ==
    /\ rdPc = "read"
    /\ mu' = [mu EXCEPT !.readers = @ - 1]
    /\ rdPc' = "idle"
    /\ UNCHANGED <<nbInventory, cDevices, refPc, refLocal, refPage, refErr, refreshes,
                   rdIP, rdGot, installs, installInvs, rdLo, atStart>>
    /\ UNCHANGED <<ctrlVars, flowVars, syncVars, workerVars, restVars>>

\* NetBox's content changes between two refreshes.
InventoryChange ==
    /\ refPc = "idle"
    /\ \E inv \in NBInventories \ {nbInventory} : nbInventory' = inv
    /\ UNCHANGED <<cDevices, mu, refPc, refLocal, refPage, refErr, refreshes,
                   rdPc, rdIP, rdGot, installs, installInvs, rdLo, atStart>>
    /\ UNCHANGED <<ctrlVars, flowVars, syncVars, workerVars, restVars>>

NextCache ==
    \/ RefreshStart
    \/ FetchPage
    \/ RefreshAbort
    \/ RefreshLock
    \/ RefreshAssign
    \/ RefreshUnlock
    \/ LookupCall
    \/ LookupRLock
    \/ LookupRead
    \/ LookupReturn
    \/ InventoryChange

\* The cache is constructed; the other components are at rest.
InitCache == CacheInit /\ CtrlParked /\ FlowParked /\ SyncParked /\ WorkerParked /\ RestParked

SpecCache == InitCache /\ [][NextCache]_vars

(***************************************************************************)
(* Flow enricher: Enricher.applyNetBoxMetadata on one flow record and one  *)
(* state of the NetBox cache.                                              *)
(***************************************************************************)
\* The device maps Enrich can find: the constructor's empty map, or what a
\* refresh installed from an inventory, the interface fetch of router-1
\* having worked or failed.
EnrichCaches ==
    {<<>>} \cup {AddPage(<<>>, inv, ifFail) : inv \in NBInventories, ifFail \in {{}, {1}}}

\* flow.ExporterIp values: 10.0.0.1, 10.0.0.3 and 10.0.0.99 as fixed32.
ExporterIps == {167772161, 167772163, 167772259}

\* Flow records as the consumer unmarshals them.  A raw record has no
\* enrichment field set; a record that was enriched before and fed to the raw
\* topic again has them set.
EnrichFlows ==
    [exporterIp : ExporterIps, inIf : {0, 7, 1001}, outIf : {5, 1001},
     exporterName : {""}, exporterSite : {""}, exporterRegion : {""}, exporterRole : {""},
     inIfName : {""}, inIfSpeed : {0}, outIfName : {""}, outIfSpeed : {0}]
    \cup
    [exporterIp : ExporterIps, inIf : {0, 7, 1001}, outIf : {5, 1001},
     exporterName : {"old-router"}, exporterSite : {"old-site"},
     exporterRegion : {"old-region"}, exporterRole : {"old-role"},
     inIfName : {"old-in"}, inIfSpeed : {100}, outIfName : {"old-out"}, outIfSpeed : {100}]

Uint32ToIPDecimal(ip) == ToString(ip)

\* uint32ToIP and net.IP.String: the four bytes, most significant first, as
\* a dotted quad.
Uint32ToIP(ip) ==
    ToString((ip \div 16777216) % 256) \o "." \o ToString((ip \div 65536) % 256)
        \o "." \o ToString((ip \div 256) % 256) \o "." \o ToString(ip % 256)

\* NetBoxCache.LookupByIP on the map devs: <<>> (not found) or <<meta>>.
LookupByIP(devs, ip) == IF ip \in DOMAIN devs THEN <<devs[ip]>> ELSE <<>>

\* applyNetBoxMetadata: the flow afterwards.  A miss returns at once; a hit
\* writes the four exporter fields, and the fields of each interface whose
\* index the device's Interfaces map holds.
ApplyNetBoxMetadata(flow, devs) ==
    LET got == LookupByIP(devs, Uint32ToIP(flow.exporterIp)) IN
    IF got = <<>> THEN flow
    ELSE LET device == got[1]
             f1 == [flow EXCEPT !.exporterName = device.name,
                                !.exporterSite = device.site,
                                !.exporterRegion = device.region,
                                !.exporterRole = device.role]
             f2 == IF flow.inIf \in DOMAIN device.interfaces
                   THEN [f1 EXCEPT !.inIfName = device.interfaces[flow.inIf].name,
                                   !.inIfSpeed = device.interfaces[flow.inIf].speed]
                   ELSE f1
         IN IF flow.outIf \in DOMAIN device.interfaces
            THEN [f2 EXCEPT !.outIfName = device.interfaces[flow.outIf].name,
                            !.outIfSpeed = device.interfaces[flow.outIf].speed]
            ELSE f2

\* A record has been unmarshalled and is about to be enriched.
EnrichInit ==
    /\ enCache \in EnrichCaches
    /\ enFlow \in EnrichFlows
    /\ enOut = <<>>

\* Enrich, its NetBox step.
EnrichFlow ==
    /\ enOut = <<>>
    /\ enOut' = <<ApplyNetBoxMetadata(enFlow, enCache)>>
    /\ UNCHANGED <<enCache, enFlow>>
    /\ UNCHANGED <<ctrlVars, flowVars, syncVars, workerVars, cacheVars, tmplVars, laterVars>>

\* The handler's loop goes on to the next flow of the batch.
NextRecord ==
    /\ enOut # <<>>
    /\ enFlow' \in EnrichFlows
    /\ enOut' = <<>>
    /\ UNCHANGED enCache
    /\ UNCHANGED <<ctrlVars, flowVars, syncVars, workerVars, cacheVars, tmplVars, laterVars>>

\* A refresh installs another map between two Enrich calls.
CacheRefreshed ==
    /\ enOut = <<>>
    /\ enCache' \in EnrichCaches \ {enCache}
    /\ UNCHANGED <<enFlow, enOut>>
    /\ UNCHANGED <<ctrlVars, flowVars, syncVars, workerVars, cacheVars, tmplVars, laterVars>>

NextEnrich ==
    \/ EnrichFlow
    \/ NextRecord
    \/ CacheRefreshed

InitEnrich ==
    /\ EnrichInit /\ RunbookParked /\ LaterParked
    /\ CtrlParked /\ FlowParked /\ SyncParked /\ WorkerParked /\ CacheParked

SpecEnrich == InitEnrich /\ [][NextEnrich]_vars

(***************************************************************************)
(* Flow enricher: run's shutdown sequence beside the consumer goroutine    *)
(* (Consumer.Start, pollBatch, the handler's Enrich calls with applyGeoIP  *)
(* and GeoIPReader.Lookup and Close).                                      *)
(***************************************************************************)
\* The frame of the shutdown steps.
shutFrame == <<ctrlVars, flowVars, syncVars, workerVars, cacheVars, tmplVars, enrichVars,
               auditVars, condVars, pathVars>>

\* run has started the goroutines and waits on <-ctx.Done(); NewGeoIPReader
\* opened the databases or failed (geoipReader = nil).
ShutdownInit ==
    /\ mainPc = "wait"
    /\ consPc = "select"
    /\ ctxDone = FALSE
    /\ geoipReader \in {"nil", "open"}
    /\ hBatch = 0
    /\ hPollI = 0
    /\ hK = 0
    /\ hSide = "src"
    /\ closedLookup = FALSE

\* SIGINT or SIGTERM arrives: signal.NotifyContext cancels ctx.
Signal ==
    /\ ~ctxDone
    /\ ctxDone' = TRUE
    /\ UNCHANGED <<mainPc, consPc, geoipReader, hBatch, hPollI, hK, hSide, closedLookup>>
    /\ UNCHANGED shutFrame

\* run: <-ctx.Done() returns, then server.Shutdown.
MainServerShutdown ==
    /\ mainPc = "wait"
    /\ ctxDone
    /\ mainPc' = "geoip"
    /\ UNCHANGED <<consPc, ctxDone, geoipReader, hBatch, hPollI, hK, hSide, closedLookup>>
    /\ UNCHANGED shutFrame

\* GeoIPReader.Close: both database handles are closed.
Close(reader) == "closed"

\* run: `if geoipReader != nil { geoipReader.Close() }`, before wg.Wait().
MainCloseGeoIP ==
    /\ mainPc = "geoip"
    /\ geoipReader' = IF geoipReader # "nil" THEN Close(geoipReader) ELSE geoipReader
    /\ mainPc' = "wgwait"
    /\ UNCHANGED <<consPc, ctxDone, hBatch, hPollI, hK, hSide, closedLookup>>
    /\ UNCHANGED shutFrame

\* run: wg.Wait() returns once the consumer goroutine has returned.
MainWait ==
    /\ mainPc = "wgwait"
    /\ consPc = "closed"
    /\ mainPc' = "done"
    /\ UNCHANGED <<consPc, ctxDone, geoipReader, hBatch, hPollI, hK, hSide, closedLookup>>
    /\ UNCHANGED shutFrame

\* Start's select, case <-ctx.Done().
ConsumerDone ==
    /\ consPc = "select"
    /\ ctxDone
    /\ consPc' = "closed"
    /\ UNCHANGED <<mainPc, ctxDone, geoipReader, hBatch, hPollI, hK, hSide, closedLookup>>
    /\ UNCHANGED shutFrame

\* Start's select, case <-ticker.C: select picks among the ready cases, so
\* this one can be taken with ctx already done.
ConsumerTick ==
    /\ consPc = "select"
    /\ consPc' = "poll"
    /\ hBatch' = 0
    /\ hPollI' = 0
    /\ UNCHANGED <<mainPc, ctxDone, geoipReader, hK, hSide, closedLookup>>
    /\ UNCHANGED shutFrame

\* pollBatch, one iteration, and Start after it returned: ctx done at the top
\* of the iteration returns an error (Start continues); otherwise Poll gives a
\* flow or nothing.  A non-empty batch goes to the handler.
ConsumerPoll ==
    /\ consPc = "poll"
    /\ IF hPollI < BatchSize /\ ctxDone
       THEN /\ consPc' = "select"
            /\ UNCHANGED <<hBatch, hPollI, hK, hSide>>
       ELSE \E got \in BOOLEAN :
            LET n == IF hPollI < BatchSize /\ got THEN hBatch + 1 ELSE hBatch
                leaves == hPollI >= BatchSize \/ ~got
            IN /\ hBatch' = n
               /\ hPollI' = IF leaves THEN hPollI ELSE hPollI + 1
               /\ consPc' = IF ~leaves THEN "poll" ELSE IF n = 0 THEN "select" ELSE "enrich"
               /\ hK' = IF leaves /\ n > 0 THEN 1 ELSE hK
               /\ hSide' = IF leaves /\ n > 0 THEN "src" ELSE hSide
    /\ UNCHANGED <<mainPc, ctxDone, geoipReader, closedLookup>>
    /\ UNCHANGED shutFrame

\* The handler's loop, Enrich of flow hK, applyGeoIP: nothing with a nil
\* reader, else GeoIPReader.Lookup of the source and then of the destination
\* address, one call per step.
ConsumerLookup ==
    /\ consPc = "enrich"
    /\ closedLookup' = (closedLookup \/ geoipReader = "closed")
    /\ LET flowDone == geoipReader = "nil" \/ hSide = "dst" IN
       /\ hSide' = IF flowDone THEN "src" ELSE "dst"
       /\ hK' = IF flowDone THEN hK + 1 ELSE hK
       /\ consPc' = IF flowDone /\ hK = hBatch THEN "produce" ELSE "enrich"
    /\ UNCHANGED <<mainPc, ctxDone, geoipReader, hBatch, hPollI>>
    /\ UNCHANGED shutFrame

\* The handler's ProduceBatch returns (with ctx.Err() when ctx is done).
ConsumerProduce ==
    /\ consPc = "produce"
    /\ consPc' = "select"
    /\ UNCHANGED <<mainPc, ctxDone, geoipReader, hBatch, hPollI, hK, hSide, closedLookup>>
    /\ UNCHANGED shutFrame

NextShutdown ==
    \/ Signal
    \/ MainServerShutdown
    \/ MainCloseGeoIP
    \/ MainWait
    \/ ConsumerDone
    \/ ConsumerTick
    \/ ConsumerPoll
    \/ ConsumerLookup
    \/ ConsumerProduce

InitShutdown ==
    /\ ShutdownInit /\ AuditParked /\ CondParked /\ PathParked
    /\ RunbookParked /\ EnrichParked
    /\ CtrlParked /\ FlowParked /\ SyncParked /\ WorkerParked /\ CacheParked

SpecShutdown == InitShutdown /\ [][NextShutdown]_vars

(***************************************************************************)
(* gnmic: parsePath and splitPath.  A string is the sequence of its        *)
(* characters (valid UTF-8, as a path of a runbook step is), an element    *)
(* name likewise.                                                          *)
(***************************************************************************)
\* The longest path string handed to parsePath.
MaxPathLen == 5

\* The characters of the path strings.
PathChars == {"a", "b", "/"}

\* The path strings of up to MaxPathLen characters.
PathStrings == UNION {[1..n -> PathChars] : n \in 0..MaxPathLen}

\* splitPath's loop over the characters: current and result after it.
RECURSIVE SplitPathLoop(_, _, _)
SplitPathLoop(path, current, result) ==
    IF path = <<>> THEN [current |-> current, result |-> result]
    ELSE IF Head(path) = "/"
    THEN (IF current # <<>>
          THEN SplitPathLoop(Tail(path), <<>>, Append(result, current))
          ELSE SplitPathLoop(Tail(path), current, result))
    ELSE SplitPathLoop(Tail(path), Append(current, Head(path)), result)

SplitPathWithoutLast(path) == SplitPathLoop(path, <<>>, <<>>).result

\* splitPath: the loop, then the segment still in current is appended.
SplitPath(path) ==
    LET after == SplitPathLoop(path, <<>>, <<>>) IN
    IF after.current # <<>> THEN Append(after.result, after.current) ELSE after.result

\* The elements of seq, in order, that are not empty.
RECURSIVE NonEmptyOf(_)
NonEmptyOf(seq) ==
    IF seq = <<>> THEN <<>>
    ELSE IF Head(seq) # <<>> THEN <<Head(seq)>> \o NonEmptyOf(Tail(seq))
    ELSE NonEmptyOf(Tail(seq))

\* parsePath: the names of path.Elem.  "" and "/" give no element; otherwise
\* one element per segment of splitPath that is not empty.
ParsePath(pathStr) ==
    IF pathStr = <<>> \/ pathStr = <<"/">> THEN <<>>
    ELSE NonEmptyOf(SplitPath(pathStr))

\* A path string is about to be parsed.
PathInit ==
    /\ pathIn \in PathStrings
    /\ pathOut = <<>>

\* parsePath is called on the path.
ParsePathCall ==
    /\ pathOut = <<>>
    /\ pathOut' = <<ParsePath(pathIn)>>
    /\ UNCHANGED pathIn
    /\ UNCHANGED <<ctrlVars, flowVars, syncVars, workerVars, cacheVars, tmplVars, enrichVars,
                   auditVars, shutVars, condVars>>

\* The next path of the step's configuration is taken up.
NextPath ==
    /\ pathOut # <<>>
    /\ pathIn' \in PathStrings
    /\ pathOut' = <<>>
    /\ UNCHANGED <<ctrlVars, flowVars, syncVars, workerVars, cacheVars, tmplVars, enrichVars,
                   auditVars, shutVars, condVars>>

NextParse ==
    \/ ParsePathCall
    \/ NextPath

InitParse ==
    /\ PathInit /\ AuditParked /\ ShutdownParked /\ CondParked
    /\ RunbookParked /\ EnrichParked
    /\ CtrlParked /\ FlowParked /\ SyncParked /\ WorkerParked /\ CacheParked

SpecParse == InitParse /\ [][NextParse]_vars

(***************************************************************************)
(* Target synchronizer: run, the three generators and UpdateConfigMap.     *)
(* A serialised document is kept as its format and its target entries: a   *)
(* function from key to target (YAML) or a sequence of entries (JSON).     *)
(***************************************************************************)
GNMIConfigMap == "helios-gnmic-targets"
SNMPConfigMap == "helios-snmp-targets"
BlackboxConfigMap == "helios-blackbox-targets"

\* The devices the inventory can return: netbox.Device values, and whether
\* the device's JSON in the page's results unmarshals into one (decodes).
Router1 ==
    [name |-> "router-1", primaryIP |-> "10.0.0.1", site |-> "dc1", region |-> "us-east",
     role |-> "spine", manufacturer |-> "arista", platform |-> "eos",
     monitoringTier |-> "critical", telemetryProfile |-> "",
     gnmiEnabled |-> TRUE, gnmiPort |-> 0, snmpEnabled |-> TRUE, snmpModule |-> "",
     blackboxProbes |-> <<>>, decodes |-> TRUE]

Switch1 ==
    [name |-> "switch-1", primaryIP |-> "10.0.0.2", site |-> "dc1", region |-> "us-east",
     role |-> "leaf", manufacturer |-> "cisco", platform |-> "nxos",
     monitoringTier |-> "standard", telemetryProfile |-> "",
     gnmiEnabled |-> FALSE, gnmiPort |-> 0, snmpEnabled |-> TRUE,
     snmpModule |-> "cisco_nxos", blackboxProbes |-> <<"icmp", "tcp_connect">>,
     decodes |-> TRUE]

NoAddress1 ==
    [name |-> "edge-1", primaryIP |-> "", site |-> "dc2", region |-> "us-west",
     role |-> "edge", manufacturer |-> "juniper", platform |-> "junos",
     monitoringTier |-> "standard", telemetryProfile |-> "edge-profile",
     gnmiEnabled |-> TRUE, gnmiPort |-> 57400, snmpEnabled |-> TRUE, snmpModule |-> "",
     blackboxProbes |-> <<>>, decodes |-> TRUE]

\* A device with a primary address whose JSON does not unmarshal into a
\* Device (its gnmi_port custom field is a string).
Garbled1 ==
    [name |-> "core-9", primaryIP |-> "10.0.0.9", site |-> "dc1", region |-> "us-east",
     role |-> "core", manufacturer |-> "arista", platform |-> "eos",
     monitoringTier |-> "critical", telemetryProfile |-> "",
     gnmiEnabled |-> TRUE, gnmiPort |-> 0, snmpEnabled |-> TRUE, snmpModule |-> "",
     blackboxProbes |-> <<>>, decodes |-> FALSE]

\* A device whose primary address NetBox gives with its prefix length.
Leaf4 ==
    [name |-> "leaf-4", primaryIP |-> "10.0.0.4/32", site |-> "dc2", region |-> "us-west",
     role |-> "leaf", manufacturer |-> "arista", platform |-> "eos",
     monitoringTier |-> "standard", telemetryProfile |-> "",
     gnmiEnabled |-> TRUE, gnmiPort |-> 0, snmpEnabled |-> TRUE, snmpModule |-> "",
     blackboxProbes |-> <<"icmp", "tcp_connect">>, decodes |-> TRUE]

\* The inventories a listing can be answered from, in listing order.
InventoryLists ==
    { <<>>, <<Router1>>, <<Switch1>>, <<NoAddress1>>, <<Router1, Switch1>>,
      <<Router1, Switch1, NoAddress1>>, <<Router1, Garbled1, Switch1>>, <<Leaf4>> }

\* The port GenerateGNMICTargets falls back to.
DefaultGNMIPort == 6030

\* defaultSubscriptions
DefaultSubscriptions(d) ==
    <<"default-counters", "default-system">>
        \o (IF d.telemetryProfile # "" THEN <<d.telemetryProfile>> ELSE <<"default-bgp">>)

\* GenerateGNMICTargets' loop: the targets map after the devices, in order.
RECURSIVE GNMICTargetsOf(_)
GNMICTargetsOf(devs) ==
    IF devs = <<>> THEN <<>>
    ELSE LET d == devs[Len(devs)]
             rest == GNMICTargetsOf(SubSeq(devs, 1, Len(devs) - 1))
             port == IF d.gnmiPort = 0 THEN DefaultGNMIPort ELSE d.gnmiPort
         IN IF ~d.gnmiEnabled \/ d.primaryIP = ""
            THEN rest
            ELSE ((d.name \o ":" \o ToString(port)) :>
                    [address |-> d.primaryIP \o ":" \o ToString(port),
                     labels |-> [device |-> d.name, site |-> d.site, region |-> d.region,
                                 vendor |-> d.manufacturer, platform |-> d.platform,
                                 role |-> d.role, tier |-> d.monitoringTier],
                     subscriptions |-> DefaultSubscriptions(d)]) @@ rest

\* GenerateGNMICTargets: yaml.Marshal of the targets, and the count.
GenerateGNMICTargets(devs) ==
    [data |-> [format |-> "yaml", targets |-> GNMICTargetsOf(devs)],
     count |-> Cardinality({i \in 1..Len(devs) :
                              devs[i].gnmiEnabled /\ devs[i].primaryIP # ""})]

\* defaultSNMPModule
DefaultSNMPModule(manufacturer, platform) ==
    CASE manufacturer = "arista" -> "arista_eos"
      [] manufacturer = "cisco" ->
            (IF platform = "iosxe" THEN "cisco_iosxe"
             ELSE IF platform = "nxos" THEN "cisco_nxos" ELSE "cisco_ios")
      [] manufacturer = "juniper" -> "juniper_junos"
      [] manufacturer = "paloalto" -> "paloalto_panos"
      [] OTHER -> "if_mib"

\* GenerateSNMPTargets' loop: the entries, in device order.
RECURSIVE SNMPEntriesOf(_)
SNMPEntriesOf(devs) ==
    IF devs = <<>> THEN <<>>
    ELSE LET d == Head(devs)
             module == IF d.snmpModule = ""
                       THEN DefaultSNMPModule(d.manufacturer, d.platform)
                       ELSE d.snmpModule
         IN IF ~d.snmpEnabled \/ d.primaryIP = ""
            THEN SNMPEntriesOf(Tail(devs))
            ELSE <<[targets |-> <<d.primaryIP>>,
                    labels |-> [device |-> d.name, site |-> d.site, region |-> d.region,
                                vendor |-> d.manufacturer, platform |-> d.platform,
                                role |-> d.role, tier |-> d.monitoringTier,
                                param_module |-> module]]>>
                 \o SNMPEntriesOf(Tail(devs))

\* GenerateSNMPTargets: json.MarshalIndent of the entries, and the count.
GenerateSNMPTargets(devs) ==
    [data |-> [format |-> "json", targets |-> SNMPEntriesOf(devs)],
     count |-> Len(SNMPEntriesOf(devs))]

\* targetForProbe
TargetForProbe(d, probe) ==
    CASE probe = "icmp" -> d.primaryIP
      [] probe = "tcp_connect" -> d.primaryIP \o ":22"
      [] probe = "http_2xx" -> "https://" \o d.primaryIP
      [] OTHER -> d.primaryIP

\* The probes GenerateBlackboxTargets uses for a device.
ProbesOf(d) ==
    IF Len(d.blackboxProbes) = 0 THEN <<"icmp">> ELSE d.blackboxProbes

\* GenerateBlackboxTargets' loops, for one probe kind: its entries in device order.
RECURSIVE BlackboxEntriesOf(_, _)
BlackboxEntriesOf(devs, probe) ==
    IF devs = <<>> THEN <<>>
    ELSE LET d == Head(devs)
         IN IF d.primaryIP = "" \/ probe \notin Range(ProbesOf(d))
               \/ TargetForProbe(d, probe) = ""
            THEN BlackboxEntriesOf(Tail(devs), probe)
            ELSE <<[targets |-> <<TargetForProbe(d, probe)>>,
                    labels |-> [device |-> d.name, site |-> d.site, region |-> d.region,
                                param_module |-> probe]]>>
                 \o BlackboxEntriesOf(Tail(devs), probe)

\* The probe kinds that got at least one entry: the keys of probeTargets.
ProbeKindsOf(devs) ==
    {probe \in UNION {Range(ProbesOf(devs[i])) : i \in 1..Len(devs)} :
        BlackboxEntriesOf(devs, probe) # <<>>}

\* GenerateBlackboxTargets and run's copy into bbData: file name -> document.
GenerateBlackboxTargets(devs) ==
    LET kinds == ProbeKindsOf(devs)
        files == {"blackbox-" \o probe \o "-targets.json" : probe \in kinds}
    IN [data |-> [f \in files |->
                    [format |-> "json",
                     targets |-> BlackboxEntriesOf(devs,
                        CHOOSE probe \in kinds : f = "blackbox-" \o probe \o "-targets.json")]],
        count |-> Cardinality({<<i, probe>> \in (1..Len(devs)) \X kinds :
                                 /\ devs[i].primaryIP # ""
                                 /\ probe \in Range(ProbesOf(devs[i]))})]

\* The data maps run passes to UpdateConfigMap for the three artifacts.
GNMICData(devs) == ("targets.yaml" :> GenerateGNMICTargets(devs).data)

SNMPData(devs) == ("snmp-targets.json" :> GenerateSNMPTargets(devs).data)

BlackboxData(devs) == GenerateBlackboxTargets(devs).data

\* configMapUpdates.WithLabelValues(name, namespace, status).Inc()
CountUpdate(name, status) ==
    cmUpdates' = IF <<name, status>> \in DOMAIN cmUpdates
                 THEN [cmUpdates EXCEPT ![<<name, status>>] = @ + 1]
                 ELSE (<<name, status>> :> 1) @@ cmUpdates

SkipsNothing(data) == FALSE

\* UpdateConfigMap's guard: len(data) == 0 skips the update.
SkipsUpdate(data) == Cardinality(DOMAIN data) = 0

\* UpdateConfigMap after its guard: Get, then Create or Update.  getErr: the
\* Get fails although the ConfigMap may exist; writeOK: the API server accepts
\* the Create or Update.  A Create of a name that exists is refused.  Labels
\* and annotations are not kept.
UpdateConfigMapWrite(name, data, getErr, writeOK) ==
    IF getErr \/ name \notin DOMAIN configMaps
    THEN IF writeOK /\ name \notin DOMAIN configMaps
         THEN /\ configMaps' = (name :> data) @@ configMaps
              /\ CountUpdate(name, "created")
         ELSE /\ UNCHANGED configMaps
              /\ CountUpdate(name, "error")
    ELSE IF writeOK
         THEN /\ configMaps' = [configMaps EXCEPT ![name] = data]
              /\ CountUpdate(name, "updated")
         ELSE /\ UNCHANGED configMaps
              /\ CountUpdate(name, "error")

\* UpdateConfigMap: nothing is done for an empty data map; otherwise two calls
\* go to the store.
UpdateConfigMap(name, data, getErr, writeOK) ==
    IF SkipsUpdate(data)
    THEN UNCHANGED <<configMaps, cmUpdates, cmCalls>>
    ELSE /\ cmCalls' = cmCalls + 2
         /\ UpdateConfigMapWrite(name, data, getErr, writeOK)

\* Whether that call of UpdateConfigMap returns an error.
UpdateConfigMapFails(name, data, getErr, writeOK) ==
    /\ ~SkipsUpdate(data)
    /\ IF getErr \/ name \notin DOMAIN configMaps
       THEN ~(writeOK /\ name \notin DOMAIN configMaps)
       ELSE ~writeOK

\* The store is empty before the first run.
SyncInit ==
    /\ configMaps = <<>>
    /\ syncPc = "start"
    /\ devices = <<>>
    /\ runs = 0
    /\ cmUpdates = <<>>
    /\ syncErrors = 0
    /\ listFailed = FALSE
    /\ cmAtStart = <<>>
    /\ runInv = <<>>
    /\ pagesFetched = 0
    /\ cmCalls = 0

\* The number of pages the inventory answers a listing with: at least one.
NumPages(inv) ==
    IF Len(inv) = 0 THEN 1 ELSE (Len(inv) + PageSize - 1) \div PageSize

\* fetchPage's loop over the page's results: a result that does not
\* unmarshal is skipped with a warning.
RECURSIVE Decoded(_)
Decoded(results) ==
    IF results = <<>> THEN <<>>
    ELSE (IF Head(results).decodes THEN <<Head(results)>> ELSE <<>>)
            \o Decoded(Tail(results))

\* ListMonitoredDevices' loop from page `page` on, allDevices being `all`.
\* failAt is the page whose fetchPage fails, 0 for none: a failure returns
\* nil and the error, whatever was fetched before.  pages counts the
\* fetchPage calls; the page's next link is null on the last page.
RECURSIVE ListFrom(_, _, _, _)
ListFrom(inv, page, failAt, all) ==
    IF page = failAt
    THEN [err |-> TRUE, devices |-> <<>>, pages |-> page]
    ELSE LET lo == (page - 1) * PageSize + 1
             hi == IF page * PageSize < Len(inv) THEN page * PageSize ELSE Len(inv)
             got == all \o Decoded(SubSeq(inv, lo, hi))
         IN IF hi < Len(inv)
            THEN ListFrom(inv, page + 1, failAt, got)
            ELSE [err |-> FALSE, devices |-> got, pages |-> page]

ListMonitoredDevicesPartial(inv, failAt) ==
    [err |-> FALSE,
     devices |-> Decoded(IF failAt = 0 THEN inv
                         ELSE SubSeq(inv, 1, (failAt - 1) * PageSize)),
     pages |-> IF failAt = 0 THEN NumPages(inv) ELSE failAt]

ListMonitoredDevicesFirstPage(inv, failAt) ==
    IF failAt = 1
    THEN [err |-> TRUE, devices |-> <<>>, pages |-> 1]
    ELSE [err |-> FALSE,
          devices |-> Decoded(SubSeq(inv, 1, IF Len(inv) < PageSize THEN Len(inv)
                                             ELSE PageSize)),
          pages |-> 1]

\* netbox.Client.ListMonitoredDevices
ListMonitoredDevices(inv, failAt) == ListFrom(inv, 1, failAt, <<>>)

\* main, when runSync returns an error: syncErrors.Inc() and os.Exit(1).
RunFails ==
    /\ syncPc' = "exit1"
    /\ syncErrors' = syncErrors + 1

\* main starts a run: run lists the monitored devices.  A listing error makes
\* run return before anything is generated or written.
SyncList ==
    /\ syncPc \in {"start", "exit0", "exit1"}
    /\ runs < MaxRuns
    /\ runs' = runs + 1
    /\ cmAtStart' = configMaps
    /\ \E inv \in InventoryLists :
        \E failAt \in 0..NumPages(inv) :
            LET listed == ListMonitoredDevices(inv, failAt) IN
            /\ listFailed' = (failAt # 0)
            /\ runInv' = inv
            /\ pagesFetched' = listed.pages
            /\ devices' = listed.devices
            /\ IF listed.err
               THEN RunFails
               ELSE /\ syncPc' = "gnmi"
                    /\ UNCHANGED syncErrors
    /\ UNCHANGED <<configMaps, cmUpdates, cmCalls>>
    /\ UNCHANGED <<ctrlVars, flowVars, workerVars, cacheVars, restVars>>

\* run's write of one artifact, and where run goes from there: on to the next
\* artifact, or out with an error.
WriteArtifact(name, data, next) ==
    \E getErr \in BOOLEAN, writeOK \in BOOLEAN :
        /\ UpdateConfigMap(name, data, getErr, writeOK)
        /\ IF UpdateConfigMapFails(name, data, getErr, writeOK)
           THEN RunFails
           ELSE /\ syncPc' = next
                /\ UNCHANGED syncErrors

\* run: generate and write the gNMI artifact.
SyncGNMI ==
    /\ syncPc = "gnmi"
    /\ WriteArtifact(GNMIConfigMap, GNMICData(devices), "snmp")
    /\ UNCHANGED <<devices, runs, listFailed, cmAtStart, runInv, pagesFetched>>
    /\ UNCHANGED <<ctrlVars, flowVars, workerVars, cacheVars, restVars>>

\* run: generate and write the SNMP artifact.
SyncSNMP ==
    /\ syncPc = "snmp"
    /\ WriteArtifact(SNMPConfigMap, SNMPData(devices), "blackbox")
    /\ UNCHANGED <<devices, runs, listFailed, cmAtStart, runInv, pagesFetched>>
    /\ UNCHANGED <<ctrlVars, flowVars, workerVars, cacheVars, restVars>>

\* run: generate and write the blackbox artifact; run returns nil and main exits 0.
SyncBlackbox ==
    /\ syncPc = "blackbox"
    /\ WriteArtifact(BlackboxConfigMap, BlackboxData(devices), "exit0")
    /\ UNCHANGED <<devices, runs, listFailed, cmAtStart, runInv, pagesFetched>>
    /\ UNCHANGED <<ctrlVars, flowVars, workerVars, cacheVars, restVars>>

NextSync ==
    \/ SyncList
    \/ SyncGNMI
    \/ SyncSNMP
    \/ SyncBlackbox

\* The scheduler starts sync runs; the other components are at rest.
InitSync == SyncInit /\ CtrlParked /\ FlowParked /\ WorkerParked /\ CacheParked /\ RestParked

SpecSync == InitSync /\ [][NextSync]_vars

(***************************************************************************)
(* Properties of the runbook controller.                                   *)
(***************************************************************************)
\* The phase an unset status.phase stands for: Reconcile treats "" as Pending.
PhaseOf(exec) == IF exec.phase = "" THEN PhasePending ELSE exec.phase

\* C1: for an execution whose runbook has requiresApproval = true, while the
\* phase is Pending or PendingApproval no worker Job exists for it, neither
\* <exec>-executor nor <exec>-rollback.
C1_NoWorkerBeforeApproval ==
    (runbook.requiresApproval /\ PhaseOf(execution) \in {PhasePending, PhasePendingApproval})
        => /\ DOMAIN jobs = {}
           /\ created = <<>>

\* C1 witness: a requiresApproval execution waits in PendingApproval with an
\* approval patch already recorded and time having passed.
C1_Witness ==
    /\ runbook.requiresApproval
    /\ execution.phase = PhasePendingApproval
    /\ execution.approvedBy = "noc-leads"
    /\ now > CreationTimestamp

\* C2: the step PendingApproval -> Approved is taken only when status.approvedBy
\* is the name of an entry of the runbook's approver list, and an execution
\* that has waited in PendingApproval and whose approvedBy has never been such
\* a name is never in Approved or Running.
C2_ApprovedOnlyByApprover ==
    /\ [][(execution.phase = PhasePendingApproval /\ execution'.phase = PhaseApproved)
            => IsApproverName(execution.approvedBy)]_vars
    /\ []((everAwaited /\ execution.phase \in {PhaseApproved, PhaseRunning})
            => everApprover)

\* C2 witness: an execution that waited for approval is Running after a listed
\* approver's name was recorded.
C2_Witness ==
    /\ everAwaited
    /\ execution.phase = PhaseRunning
    /\ execution.approvedBy = "noc-leads"

\* C3 (as claimed): once the approval timeout, measured from creation, has
\* elapsed with the execution waiting in PendingApproval and no approval
\* recorded, the execution only ever goes to TimedOut: it is never Approved or
\* Running and no worker Job is ever created, whatever is patched afterwards.
C3_LateApprovalTimesOut ==
    lapsed => /\ execution.phase \in {PhasePendingApproval, PhaseTimedOut}
              /\ created = <<>>

\* C7: over any sequence of reconciles at most one executor Job and at most
\* one rollback Job is ever created, named <exec>-executor and <exec>-rollback.
C7_AtMostOneWorkerEach ==
    /\ \A i \in 1..Len(created) :
        created[i] \in {ExecName \o "-executor", ExecName \o "-rollback"}
    /\ \A i, j \in 1..Len(created) : created[i] = created[j] => i = j

\* C7 witness: both Jobs have been created and the executor Job's name is
\* recorded in the status.
C7_Witness ==
    /\ Len(created) = 2
    /\ execution.jobName = ExecName \o "-executor"
    /\ execution.phase = PhaseRollingBack

\* The edges of the specified phase graph.
SpecifiedEdges ==
    { <<PhasePending, PhasePendingApproval>>, <<PhasePending, PhaseRunning>>,
      <<PhasePendingApproval, PhaseApproved>>, <<PhasePendingApproval, PhaseFailed>>,
      <<PhasePendingApproval, PhaseTimedOut>>, <<PhaseApproved, PhaseRunning>>,
      <<PhaseRunning, PhaseCompleted>>, <<PhaseRunning, PhaseFailed>>,
      <<PhaseFailed, PhaseRollingBack>>, <<PhaseRollingBack, PhaseRolledBack>>,
      <<PhaseRollingBack, PhaseFailed>> }

\* C8 (as claimed): every phase change follows an edge of the specified graph.
C8_OnlySpecifiedEdges ==
    [][PhaseOf(execution') # PhaseOf(execution)
         => <<PhaseOf(execution), PhaseOf(execution')>> \in SpecifiedEdges]_vars

\* C8 (amended): every phase change follows an edge of the specified graph or
\* the edge Pending -> Failed, taken when the runbook cannot be fetched.
C8_EdgesWithPendingFailed ==
    [][PhaseOf(execution') # PhaseOf(execution)
         => <<PhaseOf(execution), PhaseOf(execution')>>
                \in SpecifiedEdges \cup {<<PhasePending, PhaseFailed>>}]_vars

\* C8 witness: an execution that failed straight from Pending: it never
\* waited for approval, never started, and carries the runbook-fetch message.
C8_Witness ==
    /\ execution.phase = PhaseFailed
    /\ execution.message = "failed to get runbook"
    /\ ~everAwaited
    /\ execution.startTime = NilTime

\* The safety part of C9: with rollback steps defined, when the executor Job has failed the only
\* phase change out of Running is to Failed, the only one out of Failed is to
\* RollingBack, the Job created in RollingBack is <exec>-rollback, when that
\* Job has succeeded the only change out of RollingBack is to RolledBack, and
\* RolledBack is never left.
C9_FailedRollbackPath ==
    [][Len(runbook.rollback) > 0 =>
        /\ ( /\ execution.phase = PhaseRunning
             /\ ExecName \o "-executor" \in DOMAIN jobs
             /\ jobs[ExecName \o "-executor"] = "failed"
             /\ execution'.phase # execution.phase )
            => execution'.phase = PhaseFailed
        /\ (execution.phase = PhaseFailed /\ execution'.phase # execution.phase)
            => execution'.phase = PhaseRollingBack
        /\ (execution.phase = PhaseRollingBack /\ created' # created)
            => created' = Append(created, ExecName \o "-rollback")
        /\ ( /\ execution.phase = PhaseRollingBack
             /\ ExecName \o "-rollback" \in DOMAIN jobs
             /\ jobs[ExecName \o "-rollback"] = "succeeded"
             /\ execution'.phase # execution.phase )
            => execution'.phase = PhaseRolledBack
        /\ execution.phase = PhaseRolledBack => execution'.phase = PhaseRolledBack]_vars

\* C9: if the runbook defines rollback steps and the executor Job fails, the
\* execution passes Running -> Failed -> RollingBack, a Job named
\* <exec>-rollback is created, and when that Job succeeds the execution ends in
\* RolledBack.
C9_RollbackAfterFailure ==
    /\ C9_FailedRollbackPath
    /\ ( /\ Len(runbook.rollback) > 0
         /\ execution.phase = PhaseRunning
         /\ ExecName \o "-executor" \in DOMAIN jobs
         /\ jobs[ExecName \o "-executor"] = "failed" )
        ~> (execution.phase = PhaseRollingBack)
    /\ (Len(runbook.rollback) > 0 /\ execution.phase = PhaseRollingBack)
        ~> (ExecName \o "-rollback" \in DOMAIN jobs)
    /\ ( /\ execution.phase = PhaseRollingBack
         /\ ExecName \o "-rollback" \in DOMAIN jobs
         /\ jobs[ExecName \o "-rollback"] = "succeeded" )
        ~> (execution.phase = PhaseRolledBack)

\* C9 witness: the executor Job failed, the rollback Job was created and
\* succeeded, and the execution is RolledBack.
C9_Witness ==
    /\ Len(runbook.rollback) > 0
    /\ created = <<ExecName \o "-executor", ExecName \o "-rollback">>
    /\ jobs[ExecName \o "-executor"] = "failed"
    /\ jobs[ExecName \o "-rollback"] = "succeeded"
    /\ execution.phase = PhaseRolledBack

\* C10 (as claimed): once the rollback Job has failed and the execution is
\* Failed, Failed is its final phase.
C10_FailedAfterRollbackIsFinal ==
    [][( /\ execution.phase = PhaseFailed
         /\ ExecName \o "-rollback" \in DOMAIN jobs
         /\ jobs[ExecName \o "-rollback"] = "failed" )
        => execution'.phase = PhaseFailed]_vars

\* C12 (as claimed): in every reachable state status.startTime is set if and
\* only if the execution's phase is, or has previously been, Running.
C12_StartTimeIffRunning ==
    (execution.startTime # NilTime) <=> everRunning

\* C13 (as claimed): in every reachable state status.completionTime is set if
\* and only if the phase is terminal: Completed, Cancelled, TimedOut,
\* RolledBack, or Failed with no rollback defined.
C13_CompletionTimeIffTerminal ==
    (execution.completionTime # NilTime)
        <=> \/ execution.phase \in {PhaseCompleted, PhaseCancelled, PhaseTimedOut,
                                    PhaseRolledBack}
            \/ (execution.phase = PhaseFailed /\ Len(runbook.rollback) = 0)

\* C14: once the phase is Completed, Cancelled, TimedOut or RolledBack, no
\* reconcile changes any status field of the execution or creates or modifies
\* a worker Job.
C14_TerminalFrame ==
    [][( /\ execution.phase \in {PhaseCompleted, PhaseCancelled, PhaseTimedOut,
                                 PhaseRolledBack}
         /\ Reconcile )
        => (execution' = execution /\ jobs' = jobs /\ created' = created)]_vars

\* C14 witness: a RolledBack execution, both of its Jobs still there, that has
\* stayed RolledBack while time went on.
C14_Witness ==
    /\ execution.phase = PhaseRolledBack
    /\ execution.completionTime # NilTime
    /\ now > execution.completionTime[1]
    /\ Len(created) = 2

\* C15: a reconcile of an execution in PendingApproval whose status.approvedBy
\* is set to a name that is not in the runbook's approver list, when it writes
\* the status at all, moves the execution to Failed with a message that quotes
\* the rejected name.
C15_RejectedApproverNamed ==
    [][( /\ execution.phase = PhasePendingApproval
         /\ execution.approvedBy # ""
         /\ ~IsApproverName(execution.approvedBy)
         /\ Reconcile
         /\ execution' # execution )
        => /\ execution'.phase = PhaseFailed
           /\ execution'.message =
                "approver \"" \o execution.approvedBy
                    \o "\" is not in the runbook's approved approvers list"
           /\ execution'.approvedBy = execution.approvedBy]_vars

\* C15 witness: the execution failed from PendingApproval with the message
\* that quotes "intern", although the runbook lists an approver.
C15_Witness ==
    /\ everAwaited
    /\ runbook.approvers # <<>>
    /\ execution.phase = PhaseFailed
    /\ execution.approvedBy = "intern"
    /\ execution.message = "approver \"intern\" is not in the runbook's approved approvers list"

(***************************************************************************)
(* Properties of the runbook worker.                                       *)
(***************************************************************************)
\* Sequence a is an initial part of sequence b.
IsPrefix(a, b) ==
    /\ Len(a) <= Len(b)
    /\ \A i \in 1..Len(a) : a[i] = b[i]

\* C11 (as claimed): a worker goes through its step list in template order:
\* the executor Job's worker through the names of template.steps, the
\* rollback Job's worker through template.rollback.
C11_WorkerRunsItsStepList ==
    \A n \in DOMAIN ranSteps :
        IsPrefix(ranSteps[n],
                 IF n = ExecName \o "-rollback"
                 THEN runbook.rollback
                 ELSE [i \in 1..Len(TemplateSteps) |-> TemplateSteps[i].name])

\* C20 (as claimed): when a worker that ran the steps has exited, the
\* execution's persisted status.steps holds one entry per step with the final
\* state, output and error the worker determined for it, however the
\* controller's status writes fell between the worker's; stated here for the
\* runs in which the API server refused none of the worker's updates for
\* another reason than a stale copy.
C20_StepsRecordedBeforeExit ==
    (wPc = "exited" /\ wStepStatuses # <<>> /\ ~wRefused)
        => /\ Len(statusSteps) = Len(WorkerSteps(runbook, wJob))
           /\ statusSteps = wStepStatuses

\* Step i of the worker's list failed and does not carry continueOnError.
FailedHard(i) ==
    /\ wStepStatuses[i].status = "Failed"
    /\ ~TemplateSteps[i].continueOnError

\* C21: when a step fails without continueOnError, no later step is started
\* and, once run has left its loops, every step after it stands as Skipped in
\* the step statuses the worker writes; when a failing step carries
\* continueOnError and is not the last, the worker goes on to the next step.
C21_FailureStopsUnlessContinueOnError ==
    /\ [](\A i \in 1..Len(wStepStatuses) :
            FailedHard(i)
                => /\ wPc \in {"final", "exiting", "exited"}
                   /\ Len(ranSteps[wJob]) = i
                   /\ wPc \in {"exiting", "exited"}
                        => \A j \in (i + 1)..Len(wStepStatuses) :
                               wStepStatuses[j].status = "Skipped")
    /\ [][(/\ wPc = "steps"
           /\ wI < Len(wStepStatuses)
           /\ wStepStatuses'[wI].status = "Failed"
           /\ TemplateSteps[wI].continueOnError)
              => (wPc' = "steps" /\ wI' = wI + 1)]_vars

\* C21 witness: the first step failed without continueOnError, the worker
\* has exited, and the two steps after it were never started and are Skipped.
C21_Witness ==
    /\ wPc = "exited"
    /\ wStepStatuses # <<>>
    /\ FailedHard(1)
    /\ Len(ranSteps[wJob]) = 1
    /\ wStepStatuses[2].status = "Skipped"
    /\ wStepStatuses[3].status = "Skipped"

\* C22: a worker that loaded its execution and runbook returns exit code 0
\* exactly when no step without continueOnError failed, and its Job ends
\* succeeded or failed accordingly.
C22_ExitCodeZeroIffNoHardFailure ==
    (wPc \in {"exiting", "exited"} /\ wStepStatuses # <<>>)
        => /\ (wExitCode = 0) <=> ~(\E i \in 1..Len(wStepStatuses) : FailedHard(i))
           /\ wPc = "exited"
                => ((jobs[wJob] = "succeeded") <=> (wExitCode = 0))

\* C22 witness: a worker exited 0 although its second step, which carries
\* continueOnError, failed.
C22_Witness ==
    /\ wPc = "exited"
    /\ wStepStatuses # <<>>
    /\ wExitCode = 0
    /\ wStepStatuses[2].status = "Failed"

(***************************************************************************)
(* Properties of the runbook controller and of the worker's step dispatch. *)
(***************************************************************************)
\* The validation rules as the specification lists them.
MeetsValidationRules(rb) ==
    /\ rb.name # ""
    /\ Len(rb.steps) >= 1
    /\ \A i \in 1..Len(rb.steps) :
        /\ rb.steps[i].name # ""
        /\ rb.steps[i].action \in
              {"gnmi_set", "gnmi_get", "gnmi_subscribe", "wait", "notify", "condition"}
    /\ rb.requiresApproval => Len(rb.approvers) > 0

C25_ReadyStepsAreDispatched ==
    (stepRun # <<>> /\ stepRun[1].ready)
        => stepRun[1].result.error # "unsupported action: " \o stepRun[1].step.action

\* C30 (as claimed): whenever a gnmi_set step outside dry-run or a gnmi_get
\* step gets as far as making its client, the client carries a TLS
\* configuration, so Connect's check passes.
C30_GNMIStepsConnectWithTLS ==
    (stepRun # <<>> /\ stepRun[1].result.client # <<>>)
        => stepRun[1].result.client[1].tlsConfig # "nil"

(***************************************************************************)
(* Properties of the flow enricher's consumer and producer.                *)
(***************************************************************************)
\* C5 (as claimed): an offset is stored or committed only after every record
\* of the batch containing it has been confirmed delivered to the enriched
\* topic; a batch whose delivery failed or was never attempted has none of its
\* offsets stored or committed.
C5_OffsetsOnlyAfterDelivery ==
    (storedOffsets \cup committed) \subseteq confirmed

\* C6 (as claimed): every parseable record polled is produced exactly once:
\* once its batch's handling has ended it is on the enriched topic once, or
\* still with the producer awaiting its report, and no record is on the
\* enriched topic twice.
C6_ExactlyOneOutput ==
    /\ \A o \in finished : o \in inflight \/ Count(o, enriched) = 1
    /\ \A o \in 1..Len(rawTopic) : Count(o, enriched) <= 1

\* C23 (as claimed): once Poll has reported that all brokers are down, the
\* consume loop has stopped: the consumer goroutine is never again inside
\* pollBatch or the handler.
C23_BrokersDownStopsLoop ==
    brokersDown => cpc \notin {"poll", "produce", "wait"}

\* C31: every step that has run has its start, and its completion or failure,
\* in the audit log, and every step of the controller that changes the
\* execution's phase (approval grants, denials and rollback starts and ends
\* among them) writes an audit event.
C31_TransitionsAndStepsAudited ==
    /\ [](\A i \in 1..Len(wStepStatuses) :
            LET st == wStepStatuses[i] IN
            /\ st.status = StepCompleted
                 => {[eventType |-> "StepStarted", stepName |-> st.name],
                     [eventType |-> "StepCompleted", stepName |-> st.name]} \subseteq auditLog
            /\ st.status = StepFailed
                 => {[eventType |-> "StepStarted", stepName |-> st.name],
                     [eventType |-> "StepFailed", stepName |-> st.name]} \subseteq auditLog)
    /\ [][PhaseOf(execution') # PhaseOf(execution) => auditLog' # auditLog]_vars

\* C32: a Job of either kind is created only for an execution that has been
\* in Running, and the rollback Job only when the executor Job exists and has
\* failed; so an execution that failed before Running has no Job.
C32_WorkersOnlyAfterRunning ==
    /\ created # <<>> => everRunning
    /\ (\E i \in 1..Len(created) : created[i] = ExecName \o "-rollback")
         => /\ ExecName \o "-executor" \in DOMAIN jobs
            /\ jobs[ExecName \o "-executor"] = "failed"

\* C33: with reconciles delivered, the runbook readable and every Job
\* reporting, the execution eventually is in Completed, Cancelled, TimedOut,
\* RolledBack or Failed and keeps that phase from then on.
C33_EventuallyTerminalForever ==
    [](execution.message # "failed to get runbook")
        => \E p \in {PhaseCompleted, PhaseCancelled, PhaseTimedOut, PhaseRolledBack,
                      PhaseFailed} :
              <>[](execution.phase = p)

\* C34: ProduceBatch is never left waiting with nothing to wait for: while
\* the context is not cancelled, once the report of every record of the batch
\* that was enqueued has arrived and been received, it has received all it
\* waits for and returns.
C34_ProduceBatchReturns ==
    ( /\ cpc = "wait"
      /\ ~cancelled
      /\ deliveryChan = <<>>
      /\ inflight \cap Range(batch) = {} )
        => received = Len(batch)

\* C35: no GeoIP lookup is performed on a reader that has been closed.
C35_NoLookupOnClosedReader ==
    /\ ~closedLookup
    /\ (geoipReader = "closed") => consPc \notin {"enrich"}

\* C36: when the worker goes through a step whose condition is not empty and
\* the condition renders to "false" or to the empty string (a failed render
\* gives the empty string), the step is marked Skipped, executeStep is not
\* called, the exit code stays as it was and the loop goes on to the next
\* step (or ends after the last one).
C36_FalseOrEmptyConditionSkips ==
    [][( /\ wPc = "steps"
         /\ wI' = wI + 1
         /\ condRendered' # <<>>
         /\ condRendered'[1].result \in {"false", ""} )
        => /\ wStepStatuses'[wI].status = "Skipped"
           /\ ~stepExecuted'
           /\ wExitCode' = wExitCode
           /\ wPc' = IF wI = Len(wStepStatuses) THEN "final" ELSE "steps"]_vars

\* C36 witness: the render of the second step's condition failed, the step
\* is Skipped without having been executed, and the loop is at the third step.
C36_Witness ==
    /\ wPc = "steps"
    /\ wI = 3
    /\ condRendered = <<[result |-> "", err |-> TRUE]>>
    /\ ~stepExecuted
    /\ wStepStatuses[2].status = "Skipped"
    /\ wExitCode = 0

\* C37: for an execution in Failed whose runbook defines no rollback steps,
\* once a reconcile has stamped completionTime no later reconcile changes the
\* status: phase, completionTime and duration stay as they are.
C37_FailedReconcileIdempotent ==
    [][( /\ execution.phase = PhaseFailed
         /\ Len(runbook.rollback) = 0
         /\ execution.completionTime # NilTime )
        => /\ execution'.phase = execution.phase
           /\ execution'.completionTime = execution.completionTime
           /\ execution'.duration = execution.duration]_vars

(***************************************************************************)
(* Properties of parsePath.                                                *)
(***************************************************************************)
\* The position of the first '/' in s, 0 when it has none.
FirstSlash(s) ==
    IF \E i \in 1..Len(s) : s[i] = "/"
    THEN CHOOSE i \in 1..Len(s) : s[i] = "/" /\ \A j \in 1..(i - 1) : s[j] # "/"
    ELSE 0

\* s split on '/': the pieces between the slashes, empty ones among them.
RECURSIVE Pieces(_)
Pieces(s) ==
    IF FirstSlash(s) = 0 THEN <<s>>
    ELSE <<SubSeq(s, 1, FirstSlash(s) - 1)>> \o Pieces(SubSeq(s, FirstSlash(s) + 1, Len(s)))

\* The pieces of s that are not empty, in order.
Segments(s) ==
    LET ps == Pieces(s)
        keep == {i \in 1..Len(ps) : ps[i] # <<>>}
        Nth[k \in 0..Len(ps)] ==
            IF k = 0 THEN 0
            ELSE CHOOSE i \in keep : i > Nth[k - 1] /\ \A j \in keep : j > Nth[k - 1] => i <= j
    IN [k \in 1..Cardinality(keep) |-> ps[Nth[k]]]

\* C40: for every path string, parsePath returns the non-empty segments of
\* the string split on '/', in order; "" and "/" give no element, and "a/b",
\* "/a/b", "/a//b" and "/a/b/" all give [a, b].
C40_ParsePathGivesNonEmptySegments ==
    pathOut # <<>> =>
        /\ pathOut[1] = Segments(pathIn)
        /\ pathIn \in {<<>>, <<"/">>} => pathOut[1] = <<>>
        /\ pathIn \in {<<"a", "/", "b">>, <<"/", "a", "/", "b">>,
                        <<"/", "a", "/", "/", "b">>, <<"/", "a", "/", "b", "/">>}
             => pathOut[1] = << <<"a">>, <<"b">> >>

\* C40 witness: "/a//b" has been parsed into [a, b].
C40_Witness ==
    /\ pathIn = <<"/", "a", "/", "/", "b">>
    /\ pathOut = << << <<"a">>, <<"b">> >> >>

(***************************************************************************)
(* Properties of Enrich's NetBox step.                                     *)
(***************************************************************************)
\* The dotted quad of the exporter addresses of the model.
DottedQuad(ip) ==
    CASE ip = 167772161 -> "10.0.0.1"
      [] ip = 167772163 -> "10.0.0.3"
      [] ip = 167772259 -> "10.0.0.99"

\* The interface fields (name, speed) of a record for index idx are as the
\* device's interface map has them: the entry's when idx is in the map,
\* empty when it is not.
InterfaceFieldsMatch(ifaces, idx, name, speed) ==
    /\ idx \in DOMAIN ifaces => (name = ifaces[idx].name /\ speed = ifaces[idx].speed)
    /\ idx \notin DOMAIN ifaces => (name = "" /\ speed = 0)
    /\ (name # "") <=> (idx \in DOMAIN ifaces)

\* What the specification asks of an enriched record out, made from a record
\* with exporter address ip and interface indexes inIf and outIf, on the
\* device map devs.
EnrichedAsSpecified(out, ip, inIf, outIf, devs) ==
    IF DottedQuad(ip) \in DOMAIN devs
    THEN LET device == devs[DottedQuad(ip)] IN
         /\ out.exporterName = device.name
         /\ out.exporterSite = device.site
         /\ out.exporterRegion = device.region
         /\ out.exporterRole = device.role
         /\ InterfaceFieldsMatch(device.interfaces, inIf, out.inIfName, out.inIfSpeed)
         /\ InterfaceFieldsMatch(device.interfaces, outIf, out.outIfName, out.outIfSpeed)
    ELSE /\ out.exporterName = ""
         /\ out.exporterSite = ""
         /\ out.exporterRegion = ""
         /\ out.exporterRole = ""

\* C28 (as claimed): for every flow record and device map, after the NetBox
\* step the exporter name, site, region and role are the cache entry's on a
\* hit and empty on a miss, and on a hit the name and speed of each interface
\* are set exactly when its index is in the device's interface map.
C28_EnrichedFromCache ==
    enOut # <<>>
        => EnrichedAsSpecified(enOut[1], enFlow.exporterIp, enFlow.inIf, enFlow.outIf,
                               enCache)

\* C28 (amended): the same, for every record that comes in with its exporter
\* and interface enrichment fields empty.
C28_RawRecordEnrichedFromCache ==
    (/\ enOut # <<>>
     /\ enFlow.exporterName = "" /\ enFlow.exporterSite = ""
     /\ enFlow.exporterRegion = "" /\ enFlow.exporterRole = ""
     /\ enFlow.inIfName = "" /\ enFlow.inIfSpeed = 0
     /\ enFlow.outIfName = "" /\ enFlow.outIfSpeed = 0)
        => EnrichedAsSpecified(enOut[1], enFlow.exporterIp, enFlow.inIf, enFlow.outIf,
                               enCache)

\* C28 witness: a raw record from 10.0.0.1, in the cache as router-1, whose
\* input interface 1001 is in router-1's map and whose output interface 5 is
\* not, has been enriched.
C28_Witness ==
    /\ enOut # <<>>
    /\ enFlow.exporterName = ""
    /\ enFlow.exporterIp = 167772161
    /\ enFlow.inIf = 1001
    /\ enFlow.outIf = 5
    /\ enOut[1].exporterName = "router-1"
    /\ enOut[1].inIfName = "Ethernet1"
    /\ enOut[1].outIfName = ""

(***************************************************************************)
(* Properties of the cached interface maps.                                *)
(***************************************************************************)
\* The interfaces NetBox lists for the devices of the model.
AllInterfaces == {Eth1, Eth2, Mgmt0, Lo0, Vlan1}

\* The usable index the specification gives an interface, 0 for none: its
\* snmp_index custom field when the field is present and positive, the
\* positive number its label reads as when the field is absent.
UsableIndex(iface) ==
    IF iface.snmpIndex # <<>>
    THEN (IF iface.snmpIndex[1] > 0 THEN iface.snmpIndex[1] ELSE 0)
    ELSE CASE iface.label = <<"7">> -> 7
           [] OTHER -> 0

\* C38: every key of a cached device's interface map is the usable positive
\* index of the interface kept under it, and an interface without one (index
\* zero, negative or absent) is under no key.
C38_InterfaceKeysArePositiveIndexes ==
    \A ip \in DOMAIN cDevices :
        \A k \in DOMAIN cDevices[ip].interfaces :
            \E iface \in AllInterfaces :
                /\ iface.name = cDevices[ip].interfaces[k].name
                /\ UsableIndex(iface) > 0
                /\ k = UsableIndex(iface)

(***************************************************************************)
(* Properties of the NetBox cache.                                         *)
(***************************************************************************)
\* The map readers could see after k installs: the constructor's empty map,
\* then the k-th installed one.
SnapshotAt(k) == IF k = 0 THEN <<>> ELSE installs[k]

\* What a lookup of ip in map m returns.
LookupIn(m, ip) == IF ip \in DOMAIN m THEN <<m[ip]>> ELSE <<>>

\* Map m holds every device of listing inv that has a primary address, each
\* with all of its interfaces or, when their fetch failed, with none.
FullyFormed(m, inv) ==
    /\ DOMAIN m = {StripCIDR(inv[i].address) : i \in {j \in 1..Len(inv) : inv[j].address # <<>>}}
    /\ \A i \in 1..Len(inv) :
        inv[i].address # <<>> =>
            /\ m[StripCIDR(inv[i].address)].name = inv[i].name
            /\ m[StripCIDR(inv[i].address)].interfaces
                    \in {<<>>, InterfacesOf(inv[i].interfaces)}

\* C18: a lookup that runs beside refreshes returns the entry, interface
\* submap included, exactly as it is in a snapshot that was installed when the
\* lookup began or was installed while it ran (the previous or the new one);
\* every installed snapshot is fully formed, so a reader never sees a
\* partially built or partially replaced map.
C18_LookupSeesWholeSnapshot ==
    /\ rdPc = "read" =>
        \E k \in rdLo..Len(installs) : rdGot = LookupIn(SnapshotAt(k), rdIP)
    /\ \A k \in 1..Len(installs) : FullyFormed(installs[k], installInvs[k])

\* C18 witness: a lookup began under the first snapshot, a refresh installed
\* the second while it waited, and the lookup found its device.
C18_Witness ==
    /\ rdPc = "read"
    /\ rdLo = 1
    /\ Len(installs) = 2
    /\ rdGot # <<>>

\* C19: while a refresh is fetching, and after it has failed, the map readers
\* see is exactly the one they saw before that refresh started; a partially
\* fetched map is never installed.
C19_FailedRefreshKeepsSnapshot ==
    (refPc \in {"fetch", "fetched"} \/ refErr) => cDevices = atStart

\* C19 witness: the second refresh failed on its second page and the cache
\* still holds the first refresh's devices.
C19_Witness ==
    /\ refErr
    /\ refPc = "idle"
    /\ refreshes = 2
    /\ refPage = 2
    /\ Len(installs) = 1
    /\ cDevices = installs[1]
    /\ cDevices # <<>>

(***************************************************************************)
(* Properties of the target synchronizer.                                  *)
(***************************************************************************)
\* Whether an artifact's data holds at least one target entry.
HasTargets(data) ==
    \E f \in DOMAIN data : DOMAIN data[f].targets # {}

\* C4 (as claimed): in every sync run and for each of the three artifacts, an
\* existing artifact that holds targets is never replaced by one that holds
\* none: when the run yields zero targets for it the write is skipped and its
\* content stays as it was.
C4_NeverOverwrittenWithEmpty ==
    [][\A name \in {GNMIConfigMap, SNMPConfigMap, BlackboxConfigMap} :
         (name \in DOMAIN configMaps /\ HasTargets(configMaps[name]))
            => (name \in DOMAIN configMaps' /\ HasTargets(configMaps'[name]))]_vars

\* The descriptors of one document of an artifact: the values of gnmic's
\* targets map, the entries of a file_sd list.
DescriptorsOf(doc) ==
    IF doc.format = "yaml"
    THEN {doc.targets[k] : k \in DOMAIN doc.targets}
    ELSE {doc.targets[i] : i \in 1..Len(doc.targets)}

\* The descriptors of all documents of one artifact's data map.
DescriptorsIn(data) == UNION {DescriptorsOf(data[f]) : f \in DOMAIN data}

\* C26 (as claimed): every descriptor of every artifact in the store carries
\* the seven taxonomy label keys device, site, region, vendor, platform, role
\* and tier, with the values of the inventory device it was generated from.
C26_SevenTaxonomyLabels ==
    \A name \in DOMAIN configMaps :
        \A t \in DescriptorsIn(configMaps[name]) :
            /\ {"device", "site", "region", "vendor", "platform", "role", "tier"}
                  \subseteq DOMAIN t.labels
            /\ \E d \in {Router1, Switch1, NoAddress1, Garbled1, Leaf4} :
                /\ t.labels.device = d.name
                /\ t.labels.site = d.site
                /\ t.labels.region = d.region
                /\ t.labels.vendor = d.manufacturer
                /\ t.labels.platform = d.platform
                /\ t.labels.role = d.role
                /\ t.labels.tier = d.monitoringTier

\* The primary address of a device of the model, cut at its first '/'.
StrippedAddressOf(device) ==
    CASE device = "router-1" -> "10.0.0.1"
      [] device = "switch-1" -> "10.0.0.2"
      [] device = "core-9" -> "10.0.0.9"
      [] device = "leaf-4" -> "10.0.0.4"
      [] OTHER -> ""

\* The target address of a descriptor: a gnmic target's address, a file_sd
\* entry's only target.
TargetAddressOf(t) == IF "address" \in DOMAIN t THEN t.address ELSE t.targets[1]

\* C39: every target address in an artifact is made from its device's primary
\* address cut at the first '/': the address itself, with a port, or as an
\* https URL; no /N suffix is in any target.
C39_TargetsWithoutPrefixLength ==
    \A name \in DOMAIN configMaps :
        \A t \in DescriptorsIn(configMaps[name]) :
            LET ip == StrippedAddressOf(t.labels.device) IN
            TargetAddressOf(t) \in {ip, ip \o ":6030", ip \o ":57400", ip \o ":22",
                                    "https://" \o ip}

\* The names of the devices the three artifacts generated from devs describe.
MaterialisedNames(devs) ==
    {t.labels.device :
        t \in DescriptorsIn(GNMICData(devs)) \cup DescriptorsIn(SNMPData(devs))
                \cup DescriptorsIn(BlackboxData(devs))}

\* C27 (as claimed): in a run whose listing succeeded, every page was fetched
\* once and the devices the run's artifacts describe are exactly the devices
\* on the inventory's pages that have a primary address.
C27_AllPagesAllAddressedDevices ==
    (runs > 0 /\ ~listFailed)
        => /\ pagesFetched = NumPages(runInv)
           /\ MaterialisedNames(devices)
                = {runInv[i].name : i \in {j \in 1..Len(runInv) : runInv[j].primaryIP # ""}}

\* C27 (amended): in a run whose listing succeeded, every page was fetched
\* once and the devices the run's artifacts describe are exactly the devices
\* on the inventory's pages whose record decodes and that have a primary
\* address; a device without a primary address, or whose record does not
\* decode, is in no artifact.
C27_AllPagesAllDecodedAddressedDevices ==
    (runs > 0 /\ ~listFailed)
        => /\ pagesFetched = NumPages(runInv)
           /\ MaterialisedNames(devices)
                = {runInv[i].name :
                     i \in {j \in 1..Len(runInv) :
                              runInv[j].decodes /\ runInv[j].primaryIP # ""}}

\* C27 witness: a run listed an inventory of two pages, one of whose records
\* does not decode, and finished; its artifacts describe the other two devices.
C27_Witness ==
    /\ syncPc = "exit0"
    /\ ~listFailed
    /\ runInv = <<Router1, Garbled1, Switch1>>
    /\ pagesFetched = 2
    /\ MaterialisedNames(devices) = {"router-1", "switch-1"}

\* C29: a call of UpdateConfigMap with an empty data map (the blackbox
\* artifact of a run that has no device with a primary address) makes no call
\* to the store, changes no ConfigMap, increments no counter and returns nil,
\* so the run ends with exit code 0.
C29_EmptyDataIsNoOp ==
    [][(syncPc = "blackbox" /\ DOMAIN BlackboxData(devices) = {})
            => /\ cmCalls' = cmCalls
               /\ configMaps' = configMaps
               /\ cmUpdates' = cmUpdates
               /\ syncErrors' = syncErrors
               /\ syncPc' = "exit0"]_vars

\* C29 witness: the second run had no device with a primary address and has
\* ended with exit code 0; the blackbox artifact of the first run is still in
\* the store.
C29_Witness ==
    /\ syncPc = "exit0"
    /\ runs = 2
    /\ DOMAIN BlackboxData(devices) = {}
    /\ BlackboxConfigMap \in DOMAIN configMaps
    /\ HasTargets(configMaps[BlackboxConfigMap])

\* C16: if the inventory listing fails, on whichever page, the run writes no
\* artifact, so every existing artifact is as it was; the run exits non-zero
\* and the sync error counter goes up by one.
C16_ListingFailureWritesNothing ==
    /\ [][(runs' = runs + 1 /\ listFailed')
            => /\ syncPc' = "exit1"
               /\ syncErrors' = syncErrors + 1
               /\ configMaps' = configMaps
               /\ cmUpdates' = cmUpdates]_vars
    /\ [](listFailed => (syncPc = "exit1" /\ configMaps = cmAtStart))

\* C16 witness: the second run's listing failed after an earlier run had
\* published artifacts; they are all still there.
C16_Witness ==
    /\ listFailed
    /\ runs = 2
    /\ syncPc = "exit1"
    /\ syncErrors = 1
    /\ DOMAIN configMaps = {GNMIConfigMap, SNMPConfigMap, BlackboxConfigMap}

\* C17 (as claimed): a sync run publishes the three artifacts atomically: when
\* a run has failed, none of the artifacts differs from what it was when the
\* run started.
C17_AtomicPublish ==
    syncPc = "exit1" => configMaps = cmAtStart
====
